---- MODULE Spec2Model ----
(***************************************************************************)
(* Model of the HTML section extractor of epollo (src/epollo/browser.py):  *)
(* Browser._extract_text_content and Browser._extract_sections.            *)
(*                                                                         *)
(* A string is a sequence of characters, a character a one-character       *)
(* string.  The regular expressions of the source are modelled by what    *)
(* they match, character by character, on index positions of the string.  *)
(***************************************************************************)
EXTENDS Integers, Sequences, FiniteSets, TLC

(***************************************************************************)
(* Characters                                                              *)
(***************************************************************************)

\* U+00A0, the character &nbsp; decodes to; white space for \s and strip()
NBSP == "nbsp"

\* the characters \s matches and str.strip() removes, among those of the model
Whitespace == {" ", "\n", "\t", NBSP}

IsSpace(c) == c \in Whitespace

\* re.IGNORECASE: the upper-case letters of the model and their lower case
LowerOf == ("H" :> "h") @@ ("A" :> "a") @@ ("M" :> "m") @@ ("B" :> "b")

Lower(c) == IF c \in DOMAIN LowerOf THEN LowerOf[c] ELSE c

\* the digits [1-6] of the heading pattern
HeadingDigits == {"1", "2", "3", "4", "5", "6"}

Min(S) == CHOOSE x \in S : \A y \in S : x <= y

\* the least position of the set S, 0 when S is empty
FirstIn(S) == IF S = {} THEN 0 ELSE Min(S)

\* the greatest position of the set S of positions up to last, 0 when S is empty
LastIn(S, last) == IF S = {} THEN 0 ELSE last - Min({last - j : j \in S})

\* s[from:to] of Python with 1-based inclusive positions first..last
Slice(s, first, last) == IF first > last THEN << >> ELSE SubSeq(s, first, last)

\* the literal lit (lower case) occurs in s at position i, ignoring case
MatchAt(s, i, lit) ==
    /\ i >= 1
    /\ i + Len(lit) - 1 <= Len(s)
    /\ \A k \in 1..Len(lit) : Lower(s[i + k - 1]) = lit[k]

\* position of the first character c at or after position i, 0 when none
FirstChar(s, i, c) == FirstIn({j \in i..Len(s) : s[j] = c})

(***************************************************************************)
(* Elements: the patterns <name[^>]*>(.*?)</name> (script, style, article, *)
(* main, body) and <h([1-6])[^>]*>(.*?)</h[1-6]>, with re.IGNORECASE and   *)
(* re.DOTALL.  The tag "h" stands for the heading pattern.                 *)
(***************************************************************************)
TagName ==
    [ h       |-> <<"h">>,
      script  |-> <<"s", "c", "r", "i", "p", "t">>,
      style   |-> <<"s", "t", "y", "l", "e">>,
      article |-> <<"a", "r", "t", "i", "c", "l", "e">>,
      main    |-> <<"m", "a", "i", "n">>,
      body    |-> <<"b", "o", "d", "y">> ]

\* length of the fixed part of the opening tag: <name, or <h and a digit
OpenLen(tag) == IF tag = "h" THEN 3 ELSE 1 + Len(TagName[tag])

\* length of the closing tag: </name>, or </h, a digit and >
CloseLen(tag) == IF tag = "h" THEN 5 ELSE 3 + Len(TagName[tag])

\* the fixed part of the opening tag matches at position i
OpenAt(s, i, tag) ==
    IF tag = "h"
    THEN /\ MatchAt(s, i, <<"<", "h">>)
         /\ i + 2 <= Len(s)
         /\ s[i + 2] \in HeadingDigits
    ELSE MatchAt(s, i, <<"<">> \o TagName[tag])

\* the closing tag matches at position i
CloseAt(s, i, tag) ==
    IF tag = "h"
    THEN /\ MatchAt(s, i, <<"<", "/", "h">>)
         /\ i + 4 <= Len(s)
         /\ s[i + 3] \in HeadingDigits
         /\ s[i + 4] = ">"
    ELSE MatchAt(s, i, <<"<", "/">> \o TagName[tag] \o <<">">>)

\* .*? before the closing tag: position of the first closing tag at or
\* after position i, 0 when none
FirstClose(s, i, tag) == FirstIn({j \in i..Len(s) : CloseAt(s, j, tag)})

NoMatch == [found |-> FALSE]

\* the match of the pattern that starts at position i, if any.  [^>]*
\* cannot pass a ">", so the opening tag ends at the first ">" after its
\* fixed part; the lazy group ends at the first closing tag after that.
\* start and end are the 0-based offsets match.start() and match.end();
\* inner is group(1) of the container patterns, group(2) of the heading's.
ElemAt(s, i, tag) ==
    IF ~OpenAt(s, i, tag) THEN NoMatch
    ELSE LET gt == FirstChar(s, i + OpenLen(tag), ">")
         IN  IF gt = 0 THEN NoMatch
             ELSE LET cs == FirstClose(s, gt + 1, tag)
                  IN  IF cs = 0 THEN NoMatch
                      ELSE [ found |-> TRUE,
                             start |-> i - 1,
                             end   |-> cs + CloseLen(tag) - 1,
                             level |-> IF tag = "h" THEN s[i + 2] ELSE "",
                             inner |-> Slice(s, gt + 1, cs - 1) ]

\* re.search from position i on: the leftmost match
RECURSIVE Search(_, _, _)
Search(s, i, tag) ==
    LET o == FirstIn({j \in i..Len(s) : OpenAt(s, j, tag)})
    IN  IF o = 0 THEN NoMatch
        ELSE LET m == ElemAt(s, o, tag)
             IN  IF m.found THEN m ELSE Search(s, o + 1, tag)

\* re.sub(pattern, '', s) for a container pattern: s from position i on
\* with every match removed, matches taken left to right without overlap
RECURSIVE RemoveElems(_, _, _)
RemoveElems(s, i, tag) ==
    LET m == Search(s, i, tag)
    IN  IF ~m.found THEN Slice(s, i, Len(s))
        ELSE Slice(s, i, m.start) \o RemoveElems(s, m.end + 1, tag)

(***************************************************************************)
(* Tags: re.sub(r'<[^>]+>', rep, s)                                        *)
(***************************************************************************)

\* a tag starts at position i: "<", at least one character that is not
\* ">", then ">"; the result is the position of that ">", 0 when no tag
TagEndAt(s, i) ==
    IF i + 1 <= Len(s) /\ s[i] = "<" /\ s[i + 1] # ">"
    THEN FirstChar(s, i + 2, ">")
    ELSE 0

\* s from position i on with every tag replaced by rep
RECURSIVE SubTags(_, _, _)
SubTags(s, i, rep) ==
    LET b == FirstIn({j \in i..Len(s) : TagEndAt(s, j) # 0})
    IN  IF b = 0 THEN Slice(s, i, Len(s))
        ELSE Slice(s, i, b - 1) \o rep \o SubTags(s, TagEndAt(s, b) + 1, rep)

\* s contains a tag
HasTag(s) == \E i \in 1..Len(s) : TagEndAt(s, i) # 0

(***************************************************************************)
(* html.unescape: the character references of the model.  A reference is  *)
(* "&" and a name of up to 32 characters other than tab, line feed, form   *)
(* feed, space, "<", "&", "#" and ";", with an optional ";", or "&#",      *)
(* decimal digits and an optional ";".  A name that is no entity is        *)
(* replaced by its longest prefix of two or more characters that is one,   *)
(* followed by the rest; with no such prefix the text is kept.             *)
(***************************************************************************)

\* the entities of html.entities.html5 that the model's inputs can spell
NamedRef ==
    { << <<"l", "t", ";">>, "<" >>,  << <<"l", "t">>, "<" >>,
      << <<"g", "t", ";">>, ">" >>,  << <<"g", "t">>, ">" >>,
      << <<"a", "m", "p", ";">>, "&" >>,  << <<"a", "m", "p">>, "&" >>,
      << <<"n", "b", "s", "p", ";">>, NBSP >>,
      << <<"n", "b", "s", "p">>, NBSP >> }

\* chr(num) for the decimal references the model's inputs can spell
NumericRef ==
    { << <<"3", "2">>, " " >>,  << <<"6", "0">>, "<" >>,
      << <<"6", "2">>, ">" >>,  << <<"3", "8">>, "&" >> }

IsRef(table, name) == \E e \in table : e[1] = name

RefValue(table, name) == (CHOOSE e \in table : e[1] = name)[2]

Digits == {"0", "1", "2", "3", "4", "5", "6", "7", "8", "9"}

NameStop == {"\t", "\n", "\f", " ", "<", "&", "#", ";"}

MaxNameLen == 32

\* last position of the run of characters of the set cs that starts at
\* position i and has at most max characters; i - 1 when the run is empty
RunEnd(s, i, cs, inside, max) ==
    LET last == IF Len(s) < i + max - 1 THEN Len(s) ELSE i + max - 1
        stop == FirstIn({j \in i..last : (s[j] \in cs) # inside})
    IN  IF stop = 0 THEN last ELSE stop - 1

\* position after an optional ";" at position i
SkipSemi(s, i) == IF i <= Len(s) /\ s[i] = ";" THEN i + 1 ELSE i

\* _replace_charref for a named reference: the replacement of the name
\* (the text after "&", with its ";" if any)
RECURSIVE LongestPrefix(_, _)
LongestPrefix(name, x) ==
    IF x < 2 THEN <<"&">> \o name
    ELSE IF IsRef(NamedRef, SubSeq(name, 1, x))
    THEN <<RefValue(NamedRef, SubSeq(name, 1, x))>> \o Slice(name, x + 1, Len(name))
    ELSE LongestPrefix(name, x - 1)

ReplaceNamed(name) ==
    IF IsRef(NamedRef, name) THEN <<RefValue(NamedRef, name)>>
    ELSE LongestPrefix(name, Len(name) - 1)

\* _replace_charref for a decimal reference: digits is the number's text
ReplaceNumeric(digits, whole) ==
    IF IsRef(NumericRef, digits) THEN <<RefValue(NumericRef, digits)>>
    ELSE <<"&">> \o whole

RECURSIVE UnescapeFrom(_, _)
UnescapeFrom(s, i) ==
    IF FirstChar(s, i, "&") = 0 THEN Slice(s, i, Len(s))
    ELSE IF s[i] # "&"
    THEN Slice(s, i, FirstChar(s, i, "&") - 1) \o UnescapeFrom(s, FirstChar(s, i, "&"))
    ELSE IF i + 2 <= Len(s) /\ s[i + 1] = "#" /\ s[i + 2] \in Digits
    THEN LET d == RunEnd(s, i + 2, Digits, TRUE, Len(s))
             e == SkipSemi(s, d + 1)
         IN  ReplaceNumeric(SubSeq(s, i + 2, d), SubSeq(s, i + 1, e - 1))
                 \o UnescapeFrom(s, e)
    ELSE IF i + 1 <= Len(s) /\ s[i + 1] \notin NameStop
    THEN LET n == RunEnd(s, i + 1, NameStop, FALSE, MaxNameLen)
             e == SkipSemi(s, n + 1)
         IN  ReplaceNamed(SubSeq(s, i + 1, e - 1)) \o UnescapeFrom(s, e)
    ELSE <<"&">> \o UnescapeFrom(s, i + 1)

Unescape(s) == UnescapeFrom(s, 1)

\* s contains a character reference that unescape would replace
HasRef(s) == Unescape(s) # s

(***************************************************************************)
(* White space                                                             *)
(***************************************************************************)

\* a variant that replaces pairs of white space: re.sub(r'\s\s', ' ', s)
RECURSIVE CollapseSpacePairs(_, _)
CollapseSpacePairs(s, i) ==
    LET b == FirstIn({j \in i..(Len(s) - 1) : IsSpace(s[j]) /\ IsSpace(s[j + 1])})
    IN  IF b = 0 THEN Slice(s, i, Len(s))
        ELSE Slice(s, i, b - 1) \o <<" ">> \o CollapseSpacePairs(s, b + 2)

\* re.sub(r'\s+', ' ', s) from position i on
RECURSIVE CollapseSpace(_, _)
CollapseSpace(s, i) ==
    LET b == FirstIn({j \in i..Len(s) : IsSpace(s[j])})
    IN  IF b = 0 THEN Slice(s, i, Len(s))
        ELSE Slice(s, i, b - 1) \o <<" ">>
                 \o CollapseSpace(s, RunEnd(s, b, Whitespace, TRUE, Len(s)) + 1)

\* the last line feed of the white space after the line feed at position i
BlankLineEnd(s, i) ==
    LET r == RunEnd(s, i + 1, Whitespace, TRUE, Len(s))
    IN  LastIn({j \in (i + 1)..r : s[j] = "\n"}, r)

\* re.sub(r'\n\s*\n', '\n\n', s) from position i on: a line feed, the
\* white space after it up to its last line feed
RECURSIVE CollapseBlankLines(_, _)
CollapseBlankLines(s, i) ==
    LET b == FirstIn({j \in i..Len(s) : s[j] = "\n" /\ BlankLineEnd(s, j) # 0})
    IN  IF b = 0 THEN Slice(s, i, Len(s))
        ELSE Slice(s, i, b - 1) \o <<"\n", "\n">>
                 \o CollapseBlankLines(s, BlankLineEnd(s, b) + 1)

(***************************************************************************)
(* str.strip()                                                             *)
(***************************************************************************)
Strip(s) ==
    LET first == FirstIn({j \in 1..Len(s) : ~IsSpace(s[j])})
        last  == LastIn({j \in 1..Len(s) : ~IsSpace(s[j])}, Len(s))
    IN  IF first = 0 THEN << >> ELSE SubSeq(s, first, last)

(***************************************************************************)
(* Browser._extract_text_content                                           *)
(***************************************************************************)
ExtractTextContent(html) ==
    LET noScript == RemoveElems(html, 1, "script")
        noStyle  == RemoveElems(noScript, 1, "style")
        noTags   == SubTags(noStyle, 1, <<" ">>)
        decoded  == Unescape(noTags)
        spaced   == CollapseSpace(decoded, 1)
        lines    == CollapseBlankLines(spaced, 1)
    IN  Strip(lines)

(***************************************************************************)
(* str.split('\n\n'), '\n\n'.join, and the paragraph lists                 *)
(***************************************************************************)

\* position of the first "\n\n" at or after position i, 0 when none
FirstBreak(s, i) ==
    FirstIn({j \in i..(Len(s) - 1) : s[j] = "\n" /\ s[j + 1] = "\n"})

\* s[i:].split('\n\n')
RECURSIVE SplitFrom(_, _)
SplitFrom(s, i) ==
    LET b == FirstBreak(s, i)
    IN  IF b = 0 THEN <<Slice(s, i, Len(s))>>
        ELSE <<Slice(s, i, b - 1)>> \o SplitFrom(s, b + 2)

Split(s) == SplitFrom(s, 1)

\* '\n\n'.join(ps)
RECURSIVE Join(_)
Join(ps) ==
    IF ps = << >> THEN << >>
    ELSE IF Len(ps) = 1 THEN ps[1]
    ELSE ps[1] \o <<"\n", "\n">> \o Join(Tail(ps))

\* [p.strip() for p in text.split('\n\n') if p.strip() and len(p.strip()) > min]
RECURSIVE StripKeep(_, _)
StripKeep(ps, min) ==
    IF ps = << >> THEN << >>
    ELSE LET p == Strip(ps[1])
         IN  (IF p # << >> /\ Len(p) > min THEN <<p>> ELSE << >>)
                 \o StripKeep(Tail(ps), min)

Paragraphs(text, min) == StripKeep(Split(text), min)

\* seq[:n]
Take(seq, n) == Slice(seq, 1, IF Len(seq) < n THEN Len(seq) ELSE n)

\* seq[a:b] with Python's 0-based offsets, cut to the sequence
PySlice(seq, a, b) == Slice(seq, a + 1, IF Len(seq) < b THEN Len(seq) ELSE b)

(***************************************************************************)
(* Browser._extract_sections: its constants and pure steps                 *)
(***************************************************************************)

\* paragraphs[:6] and paragraphs[i:i+6]
MaxParagraphs == 6

\* len(p.strip()) > 50 in the fallback
MinParagraphLen == 50

\* range(0, min(len(paragraphs), 5), 2)
FallbackStop == 5

FallbackStride == 2

\* paragraphs[i][:100] + "..."
MaxTitleLen == 100

\* sections[:10]
MaxSections == 10

\* int(match.group(1))
LevelOf == ("1" :> 1) @@ ("2" :> 2) @@ ("3" :> 3) @@ ("4" :> 4) @@ ("5" :> 5) @@ ("6" :> 6)

\* the title of a heading: tags removed, stripped, then entities decoded
HeadingTitle(inner) == Unescape(Strip(SubTags(inner, 1, << >>)))

\* a variant whose search resumes inside the previous match
RECURSIVE FindHeadingsOverlapping(_, _)
FindHeadingsOverlapping(s, i) ==
    LET m == Search(s, i, "h")
    IN  IF ~m.found THEN << >>
        ELSE << [ level |-> LevelOf[m.level],
                  title |-> HeadingTitle(m.inner),
                  start |-> m.start,
                  end   |-> m.end ] >> \o FindHeadingsOverlapping(s, m.start + 2)

\* the loop over re.finditer(pattern, html): the headings from position i on
RECURSIVE FindHeadings(_, _)
FindHeadings(s, i) ==
    LET m == Search(s, i, "h")
    IN  IF ~m.found THEN << >>
        ELSE << [ level |-> LevelOf[m.level],
                  title |-> HeadingTitle(m.inner),
                  start |-> m.start,
                  end   |-> m.end ] >> \o FindHeadings(s, m.end + 1)

\* a variant in which every heading's content runs to the document's end
EndPosDocEnd(s, hs, i) == Len(s)

\* end_pos for heading i (1-based) of hs
EndPos(s, hs, i) == IF i + 1 <= Len(hs) THEN hs[i + 1].start ELSE Len(s)

\* a variant that keeps paragraphs[1:6]
ContentPreviewSkipFirst(s, hs, i) ==
    LET content_html == PySlice(s, hs[i].end, IF i + 1 <= Len(hs) THEN hs[i + 1].start ELSE Len(s))
        content_text == ExtractTextContent(content_html)
    IN  Join(PySlice(Paragraphs(content_text, 0), 1, MaxParagraphs))

\* a variant that appends content_html, stripped, in place of the preview
ContentHtml(s, hs, i) ==
    Strip(PySlice(s, hs[i].end, IF i + 1 <= Len(hs) THEN hs[i + 1].start ELSE Len(s)))

\* content_preview for heading i (1-based) of hs
ContentPreview(s, hs, i) ==
    LET content_html == PySlice(s, hs[i].end, EndPos(s, hs, i))
        content_text == ExtractTextContent(content_html)
    IN  Join(Take(Paragraphs(content_text, 0), MaxParagraphs))

\* a variant that tests the content alone
EmitsContentOnly(title, content) == content # << >>

\* the section of heading i is appended
Emits(title, content) == title # << >> /\ content # << >>

\* a variant that prefers main to article
WorkingSpanMainFirst(s) ==
    LET article_match == Search(s, 1, "article")
        main_match    == Search(s, 1, "main")
        body_match    == Search(s, 1, "body")
    IN  IF main_match.found THEN main_match.inner
        ELSE IF article_match.found THEN article_match.inner
        ELSE IF body_match.found THEN body_match.inner
        ELSE << >>

\* content_html of the fallback: article, else main, else body, else ''
WorkingSpan(s) ==
    LET article_match == Search(s, 1, "article")
        main_match    == Search(s, 1, "main")
        body_match    == Search(s, 1, "body")
    IN  IF article_match.found THEN article_match.inner
        ELSE IF main_match.found THEN main_match.inner
        ELSE IF body_match.found THEN body_match.inner
        ELSE << >>

\* a variant that keeps the paragraphs of exactly 50 characters too
FallbackParagraphsAtLeast(span) ==
    IF span = << >> THEN << >>
    ELSE Paragraphs(ExtractTextContent(span), MinParagraphLen - 1)

\* the paragraphs of the fallback
FallbackParagraphs(span) ==
    IF span = << >> THEN << >>
    ELSE Paragraphs(ExtractTextContent(span), MinParagraphLen)

\* the title of the fallback section of paragraph p
FallbackTitle(p) ==
    IF Len(p) > MaxTitleLen THEN SubSeq(p, 1, MaxTitleLen) \o <<".", ".", ".">> ELSE p

\* a variant without the min: range(0, 5, 2)
FallbackRangeFixed(ps) == FallbackStop

\* min(len(paragraphs), 5)
FallbackRange(ps) == IF Len(ps) < FallbackStop THEN Len(ps) ELSE FallbackStop

\* a variant that follows the comment "If no headings found"
NeedsFallbackNoHeadings(hs, secs) == hs = << >>

\* line 663: if not sections
NeedsFallback(hs, secs) == secs = << >>

\* a variant that returns every section
ReturnAll(secs) == secs

\* line 694: sections[:10]
ReturnValue(secs) == Take(secs, MaxSections)

(***************************************************************************)
(* Browser._generate_summary_bullets, _escape_html and _create_summary_html *)
(***************************************************************************)

\* stands for the character U+2022
BULLET == "bullet"

\* cleaned_bullets[:5]
MaxBullets == 5

\* s[i:].split(c) for a character c
RECURSIVE SplitOn(_, _, _)
SplitOn(s, i, c) ==
    LET b == FirstChar(s, i, c)
    IN  IF b = 0 THEN <<Slice(s, i, Len(s))>>
        ELSE <<Slice(s, i, b - 1)>> \o SplitOn(s, b + 1, c)

\* '\n'.join(ps)
RECURSIVE JoinLines(_)
JoinLines(ps) ==
    IF ps = << >> THEN << >>
    ELSE IF Len(ps) = 1 THEN ps[1]
    ELSE ps[1] \o <<"\n">> \o JoinLines(Tail(ps))

\* s.lstrip(chars)
LStrip(s, chars) ==
    LET first == FirstIn({j \in 1..Len(s) : s[j] \notin chars})
    IN  IF first = 0 THEN << >> ELSE SubSeq(s, first, Len(s))

\* [line.strip() for line in text.split('\n') if line.strip()]
StrippedLines(text) ==
    LET lines == SplitOn(text, 1, "\n")
    IN  SelectSeq([k \in 1..Len(lines) |-> Strip(lines[k])], LAMBDA l : l # << >>)

\* lines 726-730: a line that starts with no bullet mark gets "- "
CleanBullet(line) ==
    IF line[1] \in {"-", BULLET, "*"} THEN line ELSE <<"-", " ">> \o line

\* the outcomes of ollama.generate: an exception, a response that is falsy
\* or lacks the key 'response', a response whose 'response' is no string,
\* and a response with a text
Failures == {"raise", "empty", "nostr"}

\* a variant that returns every cleaned line
GenerateSummaryBulletsAll(response) ==
    IF response.kind \in Failures THEN << >>
    ELSE LET lines == StrippedLines(Strip(response.text))
         IN  JoinLines([k \in 1..Len(lines) |-> CleanBullet(lines[k])])

\* lines 715-735: the value _generate_summary_bullets returns
GenerateSummaryBullets(response) ==
    IF response.kind \in Failures THEN << >>
    ELSE LET lines == StrippedLines(Strip(response.text))
         IN  JoinLines(Take([k \in 1..Len(lines) |-> CleanBullet(lines[k])], MaxBullets))

\* s[i:].replace(c, rep) for a character c
RECURSIVE ReplaceChar(_, _, _, _)
ReplaceChar(s, i, c, rep) ==
    LET b == FirstChar(s, i, c)
    IN  IF b = 0 THEN Slice(s, i, Len(s))
        ELSE Slice(s, i, b - 1) \o rep \o ReplaceChar(s, b + 1, c, rep)

\* a variant without the last replace
EscapeHtmlNoApostrophe(text) ==
    LET amp  == ReplaceChar(text, 1, "&", <<"&", "a", "m", "p", ";">>)
        lt   == ReplaceChar(amp, 1, "<", <<"&", "l", "t", ";">>)
        gt   == ReplaceChar(lt, 1, ">", <<"&", "g", "t", ";">>)
    IN  ReplaceChar(gt, 1, "\"", <<"&", "q", "u", "o", "t", ";">>)

\* lines 872-878
EscapeHtml(text) ==
    LET amp  == ReplaceChar(text, 1, "&", <<"&", "a", "m", "p", ";">>)
        lt   == ReplaceChar(amp, 1, "<", <<"&", "l", "t", ";">>)
        gt   == ReplaceChar(lt, 1, ">", <<"&", "g", "t", ";">>)
        quot == ReplaceChar(gt, 1, "\"", <<"&", "q", "u", "o", "t", ";">>)
    IN  ReplaceChar(quot, 1, "'", <<"&", "#", "x", "2", "7", ";">>)

\* A page is the list html_parts; a part is named by the fixed text of the
\* template it stands for (kind), with the text the code inserts into it
\* through _escape_html (text) and the text it inserts as it is (raw).
Part(kind, text, raw) == [kind |-> kind, text |-> text, raw |-> raw]

\* lines 857-859: the <li> parts of a summary
BulletParts(summary) ==
    LET bullets == SelectSeq(SplitOn(summary, 1, "\n"), LAMBDA b : Strip(b) # << >>)
    IN  [k \in 1..Len(bullets) |->
            Part("li", EscapeHtml(Strip(LStrip(bullets[k], {"-", BULLET, "*", " "}))), << >>)]

\* lines 850-865: the parts of one section
SectionParts(section) ==
    <<Part("section-title", EscapeHtml(section.title), << >>)>>
        \o (IF section.has /\ section.summary # << >>
            THEN <<Part("summary-open", << >>, << >>)>>
                     \o BulletParts(section.summary)
                     \o <<Part("summary-close", << >>, << >>)>>
            ELSE << >>)
        \o <<Part("original-content", EscapeHtml(section.content), << >>)>>

RECURSIVE AllSectionParts(_)
AllSectionParts(secs) ==
    IF secs = << >> THEN << >> ELSE SectionParts(secs[1]) \o AllSectionParts(Tail(secs))

\* lines 737-870: html_parts of _create_summary_html
CreateSummaryHtml(secs, u) ==
    <<Part("head", EscapeHtml(u), u)>> \o AllSectionParts(secs) \o <<Part("tail", << >>, << >>)>>

\* lines 893-940: the page of _create_summary_view for no section
NoContentPage(u) == <<Part("no-content", << >>, u)>>

(***************************************************************************)
(* Browser._fetch_url.  requests.get and the response are the environment: *)
(* the outcome of a request is one of the exceptions of requests, or a      *)
(* response with its status and its headers.                               *)
(***************************************************************************)

\* s.startswith(prefix)
StartsWith(s, prefix) == Len(prefix) <= Len(s) /\ SubSeq(s, 1, Len(prefix)) = prefix

Http == <<"h", "t", "t", "p", ":", "/", "/">>

Https == <<"h", "t", "t", "p", "s", ":", "/", "/">>

\* line 301: not url or not url.strip()
UrlIsEmpty(url) == Strip(url) = << >>

\* lines 305-307: the url with a scheme
WithScheme(url) ==
    IF StartsWith(url, Http) \/ StartsWith(url, Https) THEN url ELSE Https \o url

\* urlparse(url).netloc of a url that starts with http:// or https://:
\* tabs and line feeds are dropped from the url, and the netloc runs from
\* the "//" to the first "/", "?" or "#"
Netloc(url) ==
    LET clean == SelectSeq(url, LAMBDA c : c \notin {"\t", "\n"})
        first == (IF StartsWith(clean, Https) THEN Len(Https) ELSE Len(Http)) + 1
        stop  == FirstIn({j \in first..Len(clean) : clean[j] \in {"/", "?", "#"}})
    IN  Slice(clean, first, IF stop = 0 THEN Len(clean) ELSE stop - 1)

\* lines 310-315: urlparse raises ValueError for a netloc with one bracket
\* only, the code raises it for an empty netloc
UrlIsInvalid(url) ==
    LET netloc == Netloc(WithScheme(url))
    IN  \/ netloc = << >>
        \/ (\E j \in 1..Len(netloc) : netloc[j] = "[")
               # (\E j \in 1..Len(netloc) : netloc[j] = "]")

\* the classes of each exception, among those the handlers name
Classes ==
    [ReadTimeout      |-> {"Timeout", "RequestException", "Exception"},
     ConnectTimeout   |-> {"ConnectionError", "Timeout", "RequestException", "Exception"},
     ConnectionError  |-> {"ConnectionError", "RequestException", "Exception"},
     HTTPError        |-> {"HTTPError", "RequestException", "Exception"},
     ValueError       |-> {"ValueError", "Exception"},
     InvalidURL       |-> {"RequestException", "ValueError", "Exception"},
     TooManyRedirects |-> {"RequestException", "Exception"},
     OtherError       |-> {"Exception"}]

\* a variant without the last handler
HandlersNoCatchAll ==
    <<"Timeout", "ConnectionError", "HTTPError", "ValueError", "RequestException">>

\* lines 344-543: the except clauses, in their order
Handlers ==
    <<"Timeout", "ConnectionError", "HTTPError", "ValueError", "RequestException",
      "Exception">>

\* the <h2> of the error page of each except clause
ErrorHeading ==
    [Timeout          |-> "TIMEOUT ERROR",
     ConnectionError  |-> "CONNECTION ERROR",
     HTTPError        |-> "HTTP ERROR",
     ValueError       |-> "INVALID URL",
     RequestException |-> "ERROR LOADING PAGE",
     Exception        |-> "UNEXPECTED ERROR"]

\* int(content_length) of a text of digits
RECURSIVE ParseInt(_)
ParseInt(ds) ==
    IF ds = << >> THEN 0
    ELSE 10 * ParseInt(SubSeq(ds, 1, Len(ds) - 1))
             + (CHOOSE d \in 0..9 : ToString(d) = ds[Len(ds)])

IsNumber(ds) == ds # << >> /\ \A j \in 1..Len(ds) : ds[j] \in Digits

\* line 333: 10 * 1024 * 1024
MaxContentLength == 10 * 1024 * 1024

\* lines 299-342: the exception the try block raises, "" when it returns
Raised(url, outcome) ==
    IF UrlIsEmpty(url) \/ UrlIsInvalid(url) THEN "ValueError"
    ELSE IF outcome.kind # "response" THEN outcome.kind
    ELSE IF outcome.status >= 400 /\ outcome.status < 600 THEN "HTTPError"
    ELSE IF outcome.length = << >> THEN ""
    ELSE IF ~IsNumber(outcome.length) THEN "ValueError"
    ELSE IF ParseInt(outcome.length) > MaxContentLength THEN "ValueError"
    ELSE ""

\* lines 290-582: what _fetch_url gives its caller.  An exception no except
\* clause names leaves the function; a response that is html or has no
\* content type is returned as it is, another is wrapped in <pre>
FetchUrl(url, outcome) ==
    LET exc     == Raised(url, outcome)
        clause  == IF exc = "" THEN 0
                   ELSE FirstIn({k \in 1..Len(Handlers) : Handlers[k] \in Classes[exc]})
        request == IF UrlIsEmpty(url) THEN url ELSE WithScheme(url)
    IN  IF exc = ""
        THEN [raised  |-> FALSE,
              kind    |-> IF outcome.ctype \in {"html", ""} THEN "page" ELSE "pre",
              heading |-> "",
              url     |-> outcome.url]
        ELSE IF clause = 0
        THEN [raised |-> TRUE, kind |-> "", heading |-> "", url |-> << >>]
        ELSE [raised  |-> FALSE,
              kind    |-> "error",
              heading |-> ErrorHeading[Handlers[clause]],
              url     |-> request]

(***************************************************************************)
(* ContentFilter.filter_content and the pure steps of Browser._load_url.   *)
(* A page is named by where it came from (src: the kind of _fetch_url's    *)
(* result), whether it still holds its media, and what was made of it      *)
(* (view: the original, the filtered page, or the summary page).           *)
(***************************************************************************)

Page(src) == [src |-> src, media |-> TRUE, view |-> "original"]

\* self._html_content = None
NoPage == [src |-> "none", media |-> FALSE, view |-> "none"]

\* lines 961-1094: _remove_media
RemoveMedia(page) == [page EXCEPT !.media = FALSE]

\* the outcomes of ollama.generate in filter_content: the filtered page, a
\* response that is empty, invalid or shorter than 50 characters, a
\* ConnectionError, and another exception
FilterOutcomes == {"filtered", "unusable", "ConnectionError", "OtherError"}

\* a variant that lets the exception of ollama.generate through
FilterContentReraising(page, outcome) ==
    IF outcome = "filtered" THEN [exc |-> "", page |-> [page EXCEPT !.view = "filtered"]]
    ELSE IF outcome = "unusable" THEN [exc |-> "", page |-> page]
    ELSE [exc |-> outcome, page |-> page]

\* content_filter.py lines 57-92: filter_content for topics that are not
\* empty; both except clauses raise RuntimeError
FilterContent(page, outcome) ==
    IF outcome = "filtered" THEN [exc |-> "", page |-> [page EXCEPT !.view = "filtered"]]
    ELSE IF outcome = "unusable" THEN [exc |-> "", page |-> page]
    ELSE [exc |-> "RuntimeError", page |-> page]

\* lines 1106-1107: js_escape
JsEscape(t) ==
    LET slash == ReplaceChar(t, 1, "\\", <<"\\", "\\">>)
        quote == ReplaceChar(slash, 1, "'", <<"\\", "'">>)
        feed  == ReplaceChar(quote, 1, "\n", <<"\\", "n">>)
    IN  ReplaceChar(feed, 1, "\r", << >>)

(***************************************************************************)
(* Inputs.  An input document is the concatenation of a bounded number of  *)
(* pieces; parts records the pieces html was built from.                   *)
(***************************************************************************)

MaxTextParts == 3

MaxStructParts == 3

MaxBlocks == 11

MaxPeriod == 2

MaxFallbackParas == 5

MaxTitleParts == 2

Rep(c, n) == [i \in 1..n |-> c]

Intro == <<"I", "n", "t", "r", "o">>

Hello == <<"H", "e", "l", "l", "o", " ", "w", "o", "r", "l", "d", ".">>

NextT == <<"N", "e", "x", "t">>

Bye == <<"B", "y", "e", ".">>

H1(title) == <<"<", "h", "1", ">">> \o title \o <<"<", "/", "h", "1", ">">>

P(body) == <<"<", "p", ">">> \o body \o <<"<", "/", "p", ">">>

Elem(tag, body) ==
    <<"<">> \o TagName[tag] \o <<">">> \o body \o <<"<", "/">> \o TagName[tag] \o <<">">>

\* the text of every piece
PieceText ==
    [ lt      |-> <<"<">>,
      gt      |-> <<">">>,
      h1      |-> <<"<", "h", "1", ">">>,
      H2      |-> <<"<", "H", "2", " ", "c", ">">>,
      h2end   |-> <<"<", "/", "h", "2", ">">>,
      b       |-> <<"<", "b", ">">>,
      a       |-> <<"a">>,
      sp      |-> <<" ">>,
      nl2     |-> <<"\n", "\n">>,
      elt     |-> <<"&", "l", "t", ";">>,
      eamp    |-> <<"&", "a", "m", "p", ";">>,
      ltsemi  |-> <<"l", "t", ";">>,
      e32     |-> <<"&", "#", "3", "2", ";">>,
      enbsp   |-> <<"&", "n", "b", "s", "p", ";">>,
      script  |-> <<"<", "s", "c", "r", "i", "p", "t", ">">>,
      scriptend |-> <<"<", "/", "s", "c", "r", "i", "p", "t", ">">>,
      body    |-> <<"<", "b", "o", "d", "y", ">">>,
      bodyend |-> <<"<", "/", "b", "o", "d", "y", ">">>,
      art     |-> Elem("article", Rep("y", 51)),
      main    |-> Elem("main", Rep("z", 51)),
      x51     |-> Rep("x", 51),
      x50     |-> Rep("x", 50),
      hT      |-> <<"<", "h", "3", ">", "T", "<", "/", "h", "3", ">">>,
      hE      |-> <<"<", "h", "2", ">", "<", "/", "h", "2", ">">>,
      w       |-> <<"w">>,
      ws3     |-> <<" ", "\t", "\n">>,
      h7p     |-> H1(<<"T">>) \o Join(Rep(<<"a">>, 7)),
      C       |-> <<"<", "H", "3", " ", "c", ">", "T", "<", "/", "h", "3", ">">> \o P(<<"c">>),
      A       |-> H1(Intro) \o P(Hello),
      B       |-> H1(NextT) \o P(Bye),
      E       |-> <<"<", "h", "2", ">", " ", "<", "/", "h", "2", ">">> \o P(Bye),
      N       |-> H1(NextT),
      mo      |-> <<"<", "m", "a", "i", "n", ">">>,
      mc      |-> <<"<", "/", "m", "a", "i", "n", ">">>,
      p51     |-> P(Rep("p", 51)),
      q60     |-> P(Rep("q", 60)),
      l101    |-> P(Rep("l", 101)) ]

TextPieces ==
    {"lt", "gt", "h1", "H2", "h2end", "b", "a", "sp", "nl2", "elt", "eamp",
     "ltsemi", "e32", "enbsp", "script", "scriptend", "ws3"}

StructPieces ==
    {"body", "bodyend", "art", "main", "x51", "x50", "hT", "hE", "w", "h7p"}

BlockPieces == {"A", "B", "C", "E", "N"}

ParaPieces == {"x50", "p51", "q60", "l101"}

SeqsUpTo(S, n) == UNION {[1..k -> S] : k \in 0..n}

\* documents of up to MaxBlocks heading blocks that repeat a short pattern
BlockDocs ==
    { [i \in 1..k |-> pat[((i - 1) % Len(pat)) + 1]] :
          k \in 1..MaxBlocks, pat \in SeqsUpTo(BlockPieces, MaxPeriod) \ {<< >>} }

\* documents without headings: a <main> of up to MaxFallbackParas paragraphs
\* that repeat a short pattern, with a blank line between two of them
FallbackDocs ==
    { <<"mo">>
          \o [i \in 1..(2 * k - 1) |->
                 IF i % 2 = 1 THEN pat[(((i + 1) \div 2 - 1) % Len(pat)) + 1] ELSE "nl2"]
          \o <<"mc">> :
          k \in 0..MaxFallbackParas, pat \in SeqsUpTo(ParaPieces, MaxPeriod) \ {<< >>} }

TitlePieces == {"a", "sp", "e32", "enbsp"}

\* documents of one heading whose title is made of letters, spaces and
\* references to white space, and one letter after it
TitleDocs ==
    { <<"h1">> \o title \o <<"h2end", "a">> : title \in SeqsUpTo(TitlePieces, MaxTitleParts) }

Inputs ==
    SeqsUpTo(TextPieces, MaxTextParts)
        \cup SeqsUpTo(StructPieces, MaxStructParts)
        \cup BlockDocs
        \cup FallbackDocs
        \cup TitleDocs

RECURSIVE Concat(_)
Concat(ps) == IF ps = << >> THEN << >> ELSE PieceText[ps[1]] \o Concat(Tail(ps))

(***************************************************************************)
(* Config (config.py).  Python dicts are objects on a heap, named by        *)
(* references <<n, name>>: n = 0 for the dicts of the class attribute       *)
(* DEFAULT_CONFIG, n > 0 for the dicts made by the n-th load.               *)
(***************************************************************************)

Dict(items) == [isDict |-> TRUE, items |-> items]

\* a value of the file that is no mapping (a number, a string, None)
Scalar == [isDict |-> FALSE, items |-> [k \in {} |-> ""]]

Groups == {"ollama", "filtering", "display"}

\* lines 13-17
DefaultTopics == <<"advertising", "sponsored content", "newsletter signup">>

\* lines 18-28: the nested dicts of DEFAULT_CONFIG
DefaultGroup ==
    [ollama    |-> [model |-> "qwen2.5:1.5b", api_url |-> "http://localhost:11434"],
     filtering |-> [enabled |-> TRUE],
     display   |-> [remove_images |-> FALSE, summary_view |-> FALSE]]

DefaultRef == <<0, "DEFAULT_CONFIG">>

\* lines 12-29
DEFAULT_CONFIG ==
    [topics    |-> DefaultTopics,
     ollama    |-> <<0, "ollama">>,
     filtering |-> <<0, "filtering">>,
     display   |-> <<0, "display">>]

\* the heap when the class has been defined
DefaultHeap ==
    [r \in {DefaultRef} \cup {<<0, g>> : g \in Groups} |->
        IF r = DefaultRef THEN Dict(DEFAULT_CONFIG) ELSE Dict(DefaultGroup[r[2]])]

\* dict.update: the items of source over those of target
Merge(target, source) ==
    [k \in DOMAIN target \cup DOMAIN source |->
        IF k \in DOMAIN source THEN source[k] ELSE target[k]]

DictUpdate(h, target, source) ==
    [h EXCEPT ![target] = Dict(Merge(h[target].items, h[source].items))]

\* the values a file gives to a key, by number; 0 is the key left out
TopicOptions == << << >>, <<"ads">> >>

GroupOptions ==
    [ollama    |-> << Dict([api_url |-> "http://host:1"]),
                      Dict([model |-> "llama3.2:3b"]),
                      Dict([model |-> "llama3.2:3b", api_url |-> "http://host:1"]),
                      Scalar >>,
     filtering |-> << Dict([enabled |-> FALSE]) >>,
     display   |-> << Dict([summary_view |-> TRUE]) >>]

NoChoice == [topics |-> 0, ollama |-> 0, filtering |-> 0, display |-> 0]

\* line 42: no file; line 44: a file that cannot be read; line 45: a file
\* that is no YAML, an empty file, a document that is no mapping, a mapping
ConfigFiles ==
    [kind : {"absent", "unreadable", "invalid", "empty", "scalar"}, choice : {NoChoice}]
        \cup [kind   : {"mapping"},
              choice : [topics    : 0..Len(TopicOptions),
                        ollama    : 0..Len(GroupOptions.ollama),
                        filtering : 0..Len(GroupOptions.filtering),
                        display   : 0..Len(GroupOptions.display)] \ {NoChoice}]

NoFile == [kind |-> "absent", choice |-> NoChoice]

FileKeys(file) == {k \in DOMAIN file.choice : file.choice[k] > 0}

\* the value the file gives to the group g that it sets
FileGroup(file, g) == GroupOptions[g][file.choice[g]]

\* line 45: the dicts yaml.safe_load makes of a mapping in the n-th load
Parsed(file, n) ==
    [r \in {<<n, "file">>} \cup {<<n, g>> : g \in FileKeys(file) \cap Groups} |->
        IF r = <<n, "file">>
        THEN Dict([k \in FileKeys(file) |->
                      IF k = "topics" THEN TopicOptions[file.choice.topics] ELSE <<n, k>>])
        ELSE FileGroup(file, r[2])]

GroupOrder == <<"ollama", "filtering", "display">>

\* lines 51-56: merged[g].update(config[g]) for the groups of the file, from
\* the i-th on; a value that is no dict has no update
RECURSIVE UpdateGroups(_, _, _, _)
UpdateGroups(h, merged, config, i) ==
    IF i > Len(GroupOrder) THEN [raised |-> "", heap |-> h]
    ELSE LET g == GroupOrder[i]
         IN  IF g \notin DOMAIN h[config].items
             THEN UpdateGroups(h, merged, config, i + 1)
             ELSE IF ~h[h[merged].items[g]].isDict
             THEN [raised |-> "AttributeError", heap |-> h]
             ELSE UpdateGroups(DictUpdate(h, h[merged].items[g], h[config].items[g]),
                               merged, config, i + 1)

\* a variant without line 49: the items of the file are not put in merged
UpdateTopSkipped(h, merged, config) == h

\* line 49: merged.update(config)
UpdateTop(h, merged, config) == DictUpdate(h, merged, config)

\* lines 40-62: _load_config in the n-th load.  DEFAULT_CONFIG.copy() is a
\* new dict with the items of DEFAULT_CONFIG, nested dicts shared; the
\* except clause at line 58 names yaml.YAMLError and IOError only
LoadConfig(h, file, n) ==
    LET merged == <<n, "merged">>
        copied == h @@ (merged :> h[DefaultRef])
    IN  IF file.kind \in {"absent", "unreadable", "invalid", "empty"}
        THEN [raised |-> "", heap |-> copied, config |-> merged]
        ELSE IF file.kind = "scalar"
        THEN [raised |-> "ValueError", heap |-> copied, config |-> << >>]
        ELSE LET parsed  == copied @@ Parsed(file, n)
                 updated == UpdateTop(parsed, merged, <<n, "file">>)
                 deep    == UpdateGroups(updated, merged, <<n, "file">>, 1)
             IN  [raised |-> deep.raised,
                  heap   |-> deep.heap,
                  config |-> IF deep.raised = "" THEN merged ELSE << >>]

\* the fallbacks of the properties, lines 72-92
Fallback ==
    [ollama    |-> [model |-> "llama3.2", api_url |-> "http://localhost:11434"],
     filtering |-> [enabled |-> TRUE],
     display   |-> [remove_images |-> FALSE, summary_view |-> FALSE]]

\* lines 64-92: self._config.get(g, {}).get(k, fallback)
Property(h, config, g, k) ==
    LET top == h[config].items
    IN  IF g \notin DOMAIN top THEN Fallback[g][k]
        ELSE IF k \in DOMAIN h[top[g]].items THEN h[top[g]].items[k]
        ELSE Fallback[g][k]


(***************************************************************************)
(* State                                                                   *)
(***************************************************************************)
VARIABLES
    parts,       \* the pieces of the input document
    html,        \* the input document
    pc,          \* position of the caller and of _extract_sections
    text,        \* result of _extract_text_content(html)
    text2,       \* result of _extract_text_content applied to text
    headings,    \* headings of _extract_sections
    idx,         \* the loop variable i of the running loop
    sections,    \* sections of _extract_sections
    span,        \* content_html of the fallback
    paragraphs,  \* paragraphs of the fallback
    fallback,    \* the branch "if not sections" was entered
    result       \* the list _extract_sections returned

VARIABLES
    window,      \* self.window is set
    status,      \* the text of the last window.updateStatus
    progress,    \* the percentage of the last progress update
    svUrl,       \* the argument url of _create_summary_view
    svSections,  \* sections of _create_summary_view
    svPc,        \* position of _create_summary_view
    svI,         \* the loop variable i of _create_summary_view
    svCalls,     \* what each summary call and each progress update met
    svPage       \* the page _create_summary_view returned

VARIABLES
    fUrl,        \* the argument url of _fetch_url
    fOutcome,    \* what the request met
    fPc,         \* position of _fetch_url
    fResult      \* what _fetch_url gave its caller

VARIABLES
    summaryView,   \* self.config.summary_view
    removeImages,  \* self.config.remove_images
    filterReady,   \* self.config.topics and self.content_filter
    useFilter,     \* the argument use_filter of the running load
    ldUrl,         \* the argument url of the running load
    ldPc,          \* position of load_thread
    ldHtml,        \* html of load_thread
    ldFinalUrl,    \* final_url of load_thread
    ldFailures,    \* what failed in the running load
    loads,         \* the calls of navigate so far
    currentUrl,    \* self.current_url
    htmlContent,   \* self._html_content
    urlBar,        \* the text of the last window.updateUrl
    frame          \* the page the frame was loaded with

VARIABLES
    cfgFile,        \* the file the last load of the configuration met
    heap,           \* the dicts: reference -> dict
    config,         \* the reference of Config._config, << >> with no Config
    cfgError,       \* the exception of the last construction or reload
    cfgOps          \* the constructions and the reloads so far

VARIABLES
    thPc,          \* position of each load thread
    thUrl,         \* the argument url of each load thread
    thHtml,        \* html of each load thread
    thFinal,       \* final_url of each load thread
    contentUrl     \* the final_url of the load that stored _html_content

raceVars == <<thPc, thUrl, thHtml, thFinal, contentUrl>>

VARIABLES
    shContent,     \* self._html_content as take_screenshot meets it
    shCall,        \* the last call of take_screenshot and what it did
    shots          \* the calls of take_screenshot so far

shotVars == <<shContent, shCall, shots>>

VARIABLES
    tlPc,          \* crop_to_square_tiles: "idle", "called" or "done"
    tlIn,          \* the size of the image and the overlap of the call
    tlOut          \* what the call raised and the tiles it saved, in order

tileVars == <<tlPc, tlIn, tlOut>>

VARIABLES
    pwPc,          \* where a call of render_..._sync stands
    pwCall,        \* the call: html or url, with a size, with an output path
    pwRes,         \* the driver, browser, context and page of the call
    pwNav,         \* the page.goto attempts of the call, in order
    pwOut,         \* the exception in flight, the screenshot, the file
    pwCalls        \* the calls so far

playVars == <<pwPc, pwCall, pwRes, pwNav, pwOut, pwCalls>>

VARIABLES
    ocInstance,    \* the module's _ocr_instance: 0 for None, else an object
    ocObjects,     \* the DeepSeekOCR objects constructed, in order
    ocPc,          \* where each thread stands in get_ocr_client
    ocArgs,        \* the arguments of each thread's call
    ocCalls,       \* the calls of get_ocr_client in the order they began
    ocReturned     \* the objects the calls returned

ocrVars == <<ocInstance, ocObjects, ocPc, ocArgs, ocCalls, ocReturned>>

extractVars == <<parts, html, pc, text, text2, headings, idx, sections, span,
                 paragraphs, fallback, result>>

summaryVars == <<window, status, progress, svUrl, svSections, svPc, svI, svCalls,
                 svPage>>

fetchVars == <<fUrl, fOutcome, fPc, fResult>>

loadVars == <<summaryView, removeImages, filterReady, useFilter, ldUrl, ldPc, ldHtml,
              ldFinalUrl, ldFailures, loads, currentUrl, htmlContent, urlBar, frame>>

configVars == <<cfgFile, heap, config, cfgError, cfgOps>>

vars == <<extractVars, summaryVars, fetchVars, loadVars, configVars, raceVars, shotVars, tileVars, playVars, ocrVars>>

\* the variables the section extractor leaves alone
outsideExtract == <<summaryVars, fetchVars, loadVars, configVars, raceVars, shotVars, tileVars, playVars, ocrVars>>

\* the variables _create_summary_view leaves alone
outsideSummary == <<extractVars, fetchVars, loadVars, configVars, raceVars, shotVars, tileVars, playVars, ocrVars>>

\* the variables _fetch_url leaves alone
outsideFetch == <<extractVars, summaryVars, loadVars, configVars, raceVars, shotVars, tileVars, playVars, ocrVars>>

\* the variables _load_url leaves alone, the window and its status aside
outsideLoad == <<extractVars, fetchVars, configVars, progress, svUrl, svSections,
                 svPc, svI, svCalls, svPage, raceVars, shotVars, tileVars, playVars, ocrVars>>

\* the variables Config leaves alone
outsideConfig == <<extractVars, summaryVars, fetchVars, loadVars, raceVars, shotVars, tileVars, playVars, ocrVars>>

\* no call of the section extractor
ExtractIdle ==
    /\ parts = << >>
    /\ html = << >>
    /\ pc = "off"
    /\ text = << >>
    /\ text2 = << >>
    /\ headings = << >>
    /\ idx = 0
    /\ sections = << >>
    /\ span = << >>
    /\ paragraphs = << >>
    /\ fallback = FALSE
    /\ result = << >>

\* no call of _create_summary_view
SummaryIdle ==
    /\ window = FALSE
    /\ status = ""
    /\ progress = 0
    /\ svUrl = << >>
    /\ svSections = << >>
    /\ svPc = "off"
    /\ svI = 0
    /\ svCalls = << >>
    /\ svPage = << >>

\* the outcome of a request not made
NoOutcome == [kind |-> "", status |-> 0, length |-> << >>, ctype |-> "", url |-> << >>]

\* the result of a call not made
NoResult == [raised |-> FALSE, kind |-> "", heading |-> "", url |-> << >>]

\* no call of _fetch_url
FetchIdle ==
    /\ fUrl = << >>
    /\ fOutcome = NoOutcome
    /\ fPc = "off"
    /\ fResult = NoResult

\* lines 64-76: the Browser after __init__, for a configuration, with no
\* load started
LoadIdle ==
    /\ ldUrl = << >>
    /\ useFilter = FALSE
    /\ ldPc = "idle"
    /\ ldHtml = NoPage
    /\ ldFinalUrl = << >>
    /\ ldFailures = {}
    /\ loads = 0
    /\ currentUrl = << >>
    /\ htmlContent = NoPage
    /\ urlBar = << >>
    /\ frame = NoPage

\* no Config
ConfigIdle ==
    /\ cfgFile = NoFile
    /\ heap = DefaultHeap
    /\ config = << >>
    /\ cfgError = ""
    /\ cfgOps = 0

\* the variables concurrent loads leave alone
outsideRace == <<extractVars, fetchVars, configVars, progress, svUrl, svSections, svPc, svI,
                 svCalls, svPage, summaryView, filterReady, useFilter, ldUrl, ldPc,
                 ldHtml, ldFinalUrl, ldFailures, loads, shotVars, tileVars, playVars, ocrVars>>

\* no concurrent load
RaceIdle ==
    /\ thPc = << >>
    /\ thUrl = << >>
    /\ thHtml = << >>
    /\ thFinal = << >>
    /\ contentUrl = << >>

\* the variables take_screenshot leaves alone
outsideShot == <<extractVars, summaryVars, fetchVars, loadVars, configVars, raceVars, tileVars, playVars, ocrVars>>

\* _html_content after __init__ (line 74): None
NoContent == [stored |-> FALSE, text |-> << >>]

\* take_screenshot not called
NoCall ==
    [by |-> "", content |-> NoContent, started |-> FALSE, rendered |-> << >>,
     raised |-> "", returned |-> ""]

\* no call of take_screenshot
ShotIdle ==
    /\ shContent = NoContent
    /\ shCall = NoCall
    /\ shots = 0

\* the variables crop_to_square_tiles leaves alone
outsideTile == <<extractVars, summaryVars, fetchVars, loadVars, configVars, raceVars,
                 shotVars, playVars, ocrVars>>

\* no tile saved
NoTiles == [raised |-> "", tiles |-> << >>]

\* no call of crop_to_square_tiles
TileIdle ==
    /\ tlPc = "idle"
    /\ tlIn = [width |-> 0, height |-> 0, overlap |-> [num |-> 0, den |-> 1]]
    /\ tlOut = NoTiles

\* the variables the screenshot renderer leaves alone
outsidePlay == <<extractVars, summaryVars, fetchVars, loadVars, configVars, raceVars,
                 shotVars, tileVars, ocrVars>>

\* ScreenshotRenderer.__init__ (lines 27-29): nothing started
NoResources ==
    [driver |-> "none", browser |-> "none", context |-> "none", page |-> "none"]

\* nothing raised, page.screenshot not called, no file written
NoOutput == [raised |-> "", shotCalled |-> FALSE, shot |-> FALSE, file |-> FALSE]

\* no call of render_html_to_screenshot_sync or render_url_to_screenshot_sync
PlayIdle ==
    /\ pwPc = "idle"
    /\ pwCall = [kind |-> "", sized |-> FALSE, path |-> FALSE]
    /\ pwRes = NoResources
    /\ pwNav = << >>
    /\ pwOut = NoOutput
    /\ pwCalls = 0

\* the variables get_ocr_client leaves alone
outsideOcr == <<extractVars, summaryVars, fetchVars, loadVars, configVars, raceVars,
                shotVars, tileVars, playVars>>

\* ocr_utils is not in use
OcrIdle ==
    /\ ocInstance = 0
    /\ ocObjects = << >>
    /\ ocPc = << >>
    /\ ocArgs = << >>
    /\ ocCalls = << >>
    /\ ocReturned = {}

\* no Browser
LoadOff ==
    /\ LoadIdle
    /\ summaryView = FALSE
    /\ removeImages = FALSE
    /\ filterReady = FALSE

Init ==
    /\ SummaryIdle
    /\ FetchIdle
    /\ LoadOff
    /\ ConfigIdle
    /\ OcrIdle
    /\ PlayIdle
    /\ TileIdle
    /\ ShotIdle
    /\ RaceIdle
    /\ parts \in Inputs
    /\ html = Concat(parts)
    /\ pc = "idle"
    /\ text = << >>
    /\ text2 = << >>
    /\ headings = << >>
    /\ idx = 0
    /\ sections = << >>
    /\ span = << >>
    /\ paragraphs = << >>
    /\ fallback = FALSE
    /\ result = << >>

(***************************************************************************)
(* _extract_text_content(html), and the same applied to its own result     *)
(***************************************************************************)
ExtractText ==
    /\ pc = "idle"
    /\ text' = ExtractTextContent(html)
    /\ pc' = "text"
    /\ UNCHANGED <<parts, html, text2, headings, idx, sections, span, paragraphs,
                   fallback, result>>
    /\ UNCHANGED outsideExtract

ExtractTextAgain ==
    /\ pc = "text"
    /\ text2' = ExtractTextContent(text)
    /\ pc' = "text2"
    /\ UNCHANGED <<parts, html, text, headings, idx, sections, span, paragraphs,
                   fallback, result>>
    /\ UNCHANGED outsideExtract

(***************************************************************************)
(* _extract_sections(html)                                                 *)
(***************************************************************************)

\* lines 618-635: the headings and their positions
LocateHeadings ==
    /\ pc = "idle"
    /\ headings' = FindHeadings(html, 1)
    /\ idx' = 0
    /\ pc' = "headings"
    /\ UNCHANGED <<parts, html, text, text2, sections, span, paragraphs, fallback,
                   result>>
    /\ UNCHANGED outsideExtract

\* a variant that inserts the section at the front of the list
HeadingStepPrepend ==
    /\ pc = "headings"
    /\ idx < Len(headings)
    /\ LET title   == headings[idx + 1].title
           content == ContentPreview(html, headings, idx + 1)
       IN  sections' = IF Emits(title, content)
                       THEN <<[title |-> title, content |-> content]>> \o sections
                       ELSE sections
    /\ idx' = idx + 1
    /\ UNCHANGED <<parts, html, pc, text, text2, headings, span, paragraphs, fallback,
                   result>>
    /\ UNCHANGED outsideExtract

\* lines 638-660: one iteration of the loop over the headings
HeadingStep ==
    /\ pc = "headings"
    /\ idx < Len(headings)
    /\ LET title   == headings[idx + 1].title
           content == ContentPreview(html, headings, idx + 1)
       IN  sections' = IF Emits(title, content)
                       THEN Append(sections, [title |-> title, content |-> content])
                       ELSE sections
    /\ idx' = idx + 1
    /\ UNCHANGED <<parts, html, pc, text, text2, headings, span, paragraphs, fallback,
                   result>>
    /\ UNCHANGED outsideExtract

\* lines 663-681: after the loop over the headings; with no section so far
\* the fallback's content_html and paragraphs, else straight to the return
AfterHeadings ==
    /\ pc = "headings"
    /\ idx = Len(headings)
    /\ IF NeedsFallback(headings, sections)
       THEN /\ span' = WorkingSpan(html)
            /\ paragraphs' = FallbackParagraphs(WorkingSpan(html))
            /\ fallback' = TRUE
            /\ idx' = 0
            /\ pc' = "fallback"
       ELSE /\ pc' = "return"
            /\ UNCHANGED <<span, paragraphs, fallback, idx>>
    /\ UNCHANGED <<parts, html, text, text2, headings, sections, result>>
    /\ UNCHANGED outsideExtract

\* lines 684-691: one iteration of the loop over the paragraphs; an index
\* past the end of the list raises IndexError
FallbackStep ==
    /\ pc = "fallback"
    /\ idx < FallbackRange(paragraphs)
    /\ IF idx + 1 > Len(paragraphs)
       THEN /\ pc' = "raised"
            /\ UNCHANGED <<idx, sections>>
       ELSE /\ LET title   == FallbackTitle(paragraphs[idx + 1])
                   content == Join(PySlice(paragraphs, idx, idx + MaxParagraphs))
               IN  sections' = IF content # << >>
                               THEN Append(sections, [title |-> title, content |-> content])
                               ELSE sections
            /\ idx' = idx + FallbackStride
            /\ pc' = pc
    /\ UNCHANGED <<parts, html, text, text2, headings, span, paragraphs, fallback,
                   result>>
    /\ UNCHANGED outsideExtract

\* the loop over the paragraphs ends
FallbackDone ==
    /\ pc = "fallback"
    /\ idx >= FallbackRange(paragraphs)
    /\ pc' = "return"
    /\ UNCHANGED <<parts, html, text, text2, headings, idx, sections, span,
                   paragraphs, fallback, result>>
    /\ UNCHANGED outsideExtract

\* line 694: return sections[:10]
Return ==
    /\ pc = "return"
    /\ result' = ReturnValue(sections)
    /\ pc' = "done"
    /\ UNCHANGED <<parts, html, text, text2, headings, idx, sections, span,
                   paragraphs, fallback>>
    /\ UNCHANGED outsideExtract

Next ==
    \/ ExtractText
    \/ ExtractTextAgain
    \/ LocateHeadings
    \/ HeadingStep
    \/ AfterHeadings
    \/ FallbackStep
    \/ FallbackDone
    \/ Return

Spec == Init /\ [][Next]_vars

(***************************************************************************)
(* Browser._create_summary_view(html, url).  The sections are drawn from   *)
(* the lists _extract_sections can return; each summary call and each      *)
(* progress update meets one of its outcomes.                              *)
(***************************************************************************)

MaxSummarySections == 2

MaxEscapeLen == 2

SectionPool ==
    { [title |-> <<"T">>, content |-> <<"c">>],
      [title |-> <<"a", "&", "b">>, content |-> <<"<", "i", ">">>] }

EscapeAlphabet == {"&", "<", ">", "\"", "'", "a", ";", "#"}

\* one section whose title is any short text of the characters _escape_html
\* replaces or writes
EscapeSections ==
    { [title |-> t, content |-> c] :
          t \in SeqsUpTo(EscapeAlphabet, MaxEscapeLen) \ {<< >>},
          c \in {<<"c">>, <<"'", "&", "l", "t", ";", "\"">>} }

SummaryInputs ==
    SeqsUpTo(SectionPool, MaxSummarySections) \cup {<<sec>> : sec \in EscapeSections}

UrlPool == { <<"u">>, <<"u", "?", "\"", ">", "&">> }

ResponsePool ==
    { <<"-", " ", "a", "\n", "*", " ", "<", "b", ">", "\n", "\n",
        " ", "c", " ", "&", " ", "'", "d", "'", " ", "\n", BULLET, "\"", "\n",
        "5", "\n", "6">>,
      <<" ", "\n">> }

Responses ==
    {[kind |-> k, text |-> << >>] : k \in Failures}
        \cup {[kind |-> "text", text |-> t] : t \in ResponsePool}

\* what window.evaluate_js can do, with and without a window
JsOutcomes == IF window THEN {"ok", "raise"} ELSE {"none"}

\* a section without the key 'summary'
Unsummarized(sec) ==
    [title |-> sec.title, content |-> sec.content, has |-> FALSE, summary |-> << >>]

SummaryInit ==
    /\ ExtractIdle
    /\ FetchIdle
    /\ LoadOff
    /\ ConfigIdle
    /\ OcrIdle
    /\ PlayIdle
    /\ TileIdle
    /\ ShotIdle
    /\ RaceIdle
    /\ window \in BOOLEAN
    /\ status = ""
    /\ progress = 0
    /\ svUrl \in UrlPool
    /\ \E secs \in SummaryInputs :
           svSections = [k \in 1..Len(secs) |-> Unsummarized(secs[k])]
    /\ svPc = "start"
    /\ svI = 0
    /\ svCalls = << >>
    /\ svPage = << >>

\* lines 891-944: no section gives the page "no content found"; else the
\* status update before the loop, whose exception nothing catches
SummaryStart ==
    /\ svPc = "start"
    /\ IF svSections = << >>
       THEN /\ svPage' = NoContentPage(svUrl)
            /\ svPc' = "returned"
            /\ UNCHANGED status
       ELSE /\ \E js \in JsOutcomes :
                   /\ svPc' = IF js = "raise" THEN "raised" ELSE "loop"
                   /\ status' = IF js = "ok" THEN "Generating summaries..." ELSE status
            /\ UNCHANGED svPage
    /\ UNCHANGED <<window, progress, svUrl, svSections, svI, svCalls>>
    /\ UNCHANGED outsideSummary

\* a variant without the try of lines 715 and 947: an exception of the
\* summary call or of the progress update leaves _create_summary_view
SummaryStepRaising ==
    /\ svPc = "loop"
    /\ svI < Len(svSections)
    /\ \E response \in Responses, js \in JsOutcomes :
           LET section == svSections[svI + 1]
               failed  == response.kind \in {"raise", "nostr"} \/ js = "raise"
               summary == GenerateSummaryBullets(response)
           IN  /\ svSections' =
                     IF failed THEN svSections
                     ELSE [svSections EXCEPT ![svI + 1] =
                              [title |-> section.title, content |-> section.content,
                               has |-> TRUE, summary |-> summary]]
               /\ svPc' = IF failed THEN "raised" ELSE svPc
               /\ progress' = IF js = "ok"
                              THEN ((svI + 1) * 100) \div Len(svSections) ELSE progress
               /\ status' = IF js = "ok" THEN "Generating summaries... %" ELSE status
               /\ svCalls' = Append(svCalls, [response |-> response, js |-> js])
    /\ svI' = svI + 1
    /\ UNCHANGED <<window, svUrl, svPage>>
    /\ UNCHANGED outsideSummary

\* lines 946-956: one iteration of the loop over the sections.  The summary
\* call returns '' for every failure; the progress update follows the
\* assignment of the summary, and its exception sets the summary to ''
SummaryStep ==
    /\ svPc = "loop"
    /\ svI < Len(svSections)
    /\ \E response \in Responses, js \in JsOutcomes :
           LET section == svSections[svI + 1]
               summary == GenerateSummaryBullets(response)
           IN  /\ svSections' =
                     [svSections EXCEPT ![svI + 1] =
                         [title |-> section.title, content |-> section.content,
                          has |-> TRUE,
                          summary |-> IF js = "raise" THEN << >> ELSE summary]]
               /\ progress' = IF js = "ok"
                              THEN ((svI + 1) * 100) \div Len(svSections) ELSE progress
               /\ status' = IF js = "ok" THEN "Generating summaries... %" ELSE status
               /\ svCalls' = Append(svCalls, [response |-> response, js |-> js])
    /\ svI' = svI + 1
    /\ UNCHANGED <<window, svUrl, svPc, svPage>>
    /\ UNCHANGED outsideSummary

\* line 959: the page of the sections
SummaryPage ==
    /\ svPc = "loop"
    /\ svI = Len(svSections)
    /\ svPage' = CreateSummaryHtml(svSections, svUrl)
    /\ svPc' = "returned"
    /\ UNCHANGED <<window, status, progress, svUrl, svSections, svI, svCalls>>
    /\ UNCHANGED outsideSummary

SummaryNext ==
    \/ SummaryStart
    \/ SummaryStep
    \/ SummaryPage

SummarySpec == SummaryInit /\ [][SummaryNext]_vars

(***************************************************************************)
(* Browser._fetch_url(url), for every url of a few pieces and every        *)
(* outcome of the request                                                  *)
(***************************************************************************)

MaxUrlParts == 3

UrlPieceText ==
    [http |-> Http, https |-> Https, host |-> <<"a", ".", "b">>, slash |-> <<"/">>,
     sp |-> <<" ">>, tab |-> <<"\t">>, open |-> <<"[">>, query |-> <<"?">>]

RECURSIVE UrlOf(_)
UrlOf(ps) == IF ps = << >> THEN << >> ELSE UrlPieceText[ps[1]] \o UrlOf(Tail(ps))

UrlInputs == {UrlOf(ps) : ps \in SeqsUpTo(DOMAIN UrlPieceText, MaxUrlParts)}

\* the Content-Length headers: none, one at the limit, one above it, and
\* one that is no number
ContentLengths ==
    { << >>,
      <<"1", "0", "4", "8", "5", "7", "6", "0">>,
      <<"1", "0", "4", "8", "5", "7", "6", "1">>,
      <<"1", "x">> }

RequestOutcomes ==
    {[kind |-> k, status |-> 0, length |-> << >>, ctype |-> "", url |-> << >>] :
         k \in DOMAIN Classes \ {"HTTPError", "ValueError"}}
        \cup [kind : {"response"}, status : {200, 404, 500}, length : ContentLengths,
              ctype : {"html", "", "text/plain"}, url : {<<"r">>}]

FetchInit ==
    /\ ExtractIdle
    /\ SummaryIdle
    /\ LoadOff
    /\ ConfigIdle
    /\ OcrIdle
    /\ PlayIdle
    /\ TileIdle
    /\ ShotIdle
    /\ RaceIdle
    /\ fUrl \in UrlInputs
    /\ fOutcome = NoOutcome
    /\ fPc = "start"
    /\ fResult = NoResult

\* lines 290-582: one call of _fetch_url
FetchCall ==
    /\ fPc = "start"
    /\ \E outcome \in RequestOutcomes :
           /\ fOutcome' = outcome
           /\ fResult' = FetchUrl(fUrl, outcome)
           /\ fPc' = IF FetchUrl(fUrl, outcome).raised THEN "raised" ELSE "returned"
    /\ UNCHANGED fUrl
    /\ UNCHANGED outsideFetch

FetchNext == FetchCall

FetchSpec == FetchInit /\ [][FetchNext]_vars

(***************************************************************************)
(* Browser.navigate and the load thread of Browser._load_url, one load at  *)
(* a time.  Every call of window.evaluate_js succeeds or raises.           *)
(***************************************************************************)

MaxLoads == 2

\* a url with a host, and one without
LoadUrls == { <<"a", ".", "b">>, <<"/">> }

LoadOutcomes ==
    {o \in RequestOutcomes :
        \/ o.kind = "ReadTimeout"
        \/ o.kind = "response" /\ o.status = 200 /\ o.length = << >> /\ o.ctype # ""}

LoadInit ==
    /\ ExtractIdle
    /\ FetchIdle
    /\ window \in BOOLEAN
    /\ status = ""
    /\ progress = 0
    /\ svUrl = << >>
    /\ svSections = << >>
    /\ svPc = "off"
    /\ svI = 0
    /\ svCalls = << >>
    /\ svPage = << >>
    /\ LoadIdle
    /\ ConfigIdle
    /\ OcrIdle
    /\ PlayIdle
    /\ TileIdle
    /\ ShotIdle
    /\ RaceIdle
    /\ summaryView \in BOOLEAN
    /\ removeImages \in BOOLEAN
    /\ filterReady \in BOOLEAN

\* the text after a status update that met js
StatusAfter(js, message) == IF js = "ok" THEN message ELSE status

\* lines 1179-1188: navigate starts a load thread
Navigate ==
    /\ ldPc \in {"idle", "done", "failed", "escaped"}
    /\ loads < MaxLoads
    /\ \E url \in LoadUrls, filter \in BOOLEAN :
           /\ ldUrl' = url
           /\ useFilter' = filter
    /\ ldPc' = "started"
    /\ ldHtml' = NoPage
    /\ ldFinalUrl' = << >>
    /\ ldFailures' = {}
    /\ loads' = loads + 1
    /\ UNCHANGED <<summaryView, removeImages, filterReady, currentUrl, htmlContent,
                   urlBar, frame, window, status>>
    /\ UNCHANGED outsideLoad

\* lines 1109-1110: the status "Loading"
LoadStart ==
    /\ ldPc = "started"
    /\ \E js \in JsOutcomes :
           /\ ldPc' = IF js = "raise" THEN "handler" ELSE "fetch"
           /\ ldFailures' = IF js = "raise" THEN ldFailures \cup {"js"} ELSE ldFailures
           /\ status' = StatusAfter(js, "Loading")
    /\ UNCHANGED <<summaryView, removeImages, filterReady, useFilter, ldUrl, ldHtml,
                   ldFinalUrl, loads, currentUrl, htmlContent, urlBar, frame, window>>
    /\ UNCHANGED outsideLoad

\* lines 1112-1113: the fetch
LoadFetch ==
    /\ ldPc = "fetch"
    /\ \E outcome \in LoadOutcomes :
           LET r == FetchUrl(ldUrl, outcome)
           IN  /\ ldPc' = IF r.raised THEN "handler" ELSE "process"
               /\ ldHtml' = IF r.raised THEN ldHtml ELSE Page(r.kind)
               /\ ldFinalUrl' = r.url
               /\ currentUrl' = IF r.raised THEN currentUrl ELSE r.url
               /\ ldFailures' = IF r.raised \/ r.kind = "error"
                                THEN ldFailures \cup {"fetch"} ELSE ldFailures
    /\ UNCHANGED <<summaryView, removeImages, filterReady, useFilter, ldUrl, loads,
                   htmlContent, urlBar, frame, window, status>>
    /\ UNCHANGED outsideLoad

\* lines 1116-1131: the summary view.  _create_summary_view raises only
\* from its own status update; the status "Summary view ready" is inside
\* the try, after the assignment of html
LoadSummaryView ==
    /\ ldPc = "process"
    /\ summaryView
    /\ \E js1 \in JsOutcomes, view \in JsOutcomes, js2 \in JsOutcomes, js3 \in JsOutcomes :
           LET summary == [ldHtml EXCEPT !.view = "summary", !.media = FALSE]
               made    == view # "raise"
               caught  == js1 # "raise" /\ (~made \/ js2 = "raise")
               kept    == IF made THEN summary ELSE ldHtml
           IN  /\ ldPc' = IF js1 = "raise" \/ (caught /\ js3 = "raise")
                          THEN "handler" ELSE "store"
               /\ ldHtml' = IF js1 = "raise" THEN ldHtml
                            ELSE IF caught /\ js3 # "raise" /\ removeImages
                            THEN RemoveMedia(kept)
                            ELSE kept
               /\ status' = IF js1 = "raise" THEN status
                            ELSE IF ~caught THEN StatusAfter(js2, "Summary view ready")
                            ELSE IF js3 = "ok" THEN "Summary failed"
                            ELSE StatusAfter(js1, "Creating summary view...")
               /\ ldFailures' =
                      ldFailures
                          \cup (IF js1 = "raise" \/ (made /\ js2 = "raise")
                                   \/ (caught /\ js3 = "raise")
                                THEN {"js"} ELSE {})
                          \cup (IF js1 # "raise" /\ ~made THEN {"summary"} ELSE {})
    /\ UNCHANGED <<summaryView, removeImages, filterReady, useFilter, ldUrl, ldFinalUrl,
                   loads, currentUrl, htmlContent, urlBar, frame, window>>
    /\ UNCHANGED outsideLoad

\* lines 1132-1153: media removal and filtering.  An exception of
\* filter_content that is a RuntimeError is caught at line 1145; the
\* exception of a status update is not a RuntimeError
LoadPage ==
    /\ ldPc = "process"
    /\ ~summaryView
    /\ \E js1 \in JsOutcomes, outcome \in FilterOutcomes, js2 \in JsOutcomes :
           LET plain    == IF removeImages THEN RemoveMedia(ldHtml) ELSE ldHtml
               filter   == useFilter /\ filterReady
               r        == FilterContent(plain, outcome)
               failed   == filter /\ js1 # "raise" /\ r.exc # ""
               uncaught == failed /\ r.exc # "RuntimeError"
               raised   == js1 = "raise" \/ uncaught \/ (filter /\ js2 = "raise")
           IN  /\ ldPc' = IF raised THEN "handler" ELSE "store"
               /\ ldHtml' = IF filter /\ js1 # "raise" /\ ~failed THEN r.page ELSE plain
               /\ status' =
                      IF ~filter THEN StatusAfter(js1, "Loaded")
                      ELSE IF js1 = "raise" THEN status
                      ELSE IF uncaught \/ js2 # "ok"
                      THEN StatusAfter(js1, "Filtering content...")
                      ELSE IF failed THEN "Filtering failed" ELSE "Content filtered"
               /\ ldFailures' =
                      ldFailures
                          \cup (IF js1 = "raise" \/ (filter /\ ~uncaught /\ js2 = "raise")
                                THEN {"js"} ELSE {})
                          \cup (IF failed THEN {"filter"} ELSE {})
    /\ UNCHANGED <<summaryView, removeImages, filterReady, useFilter, ldUrl, ldFinalUrl,
                   loads, currentUrl, htmlContent, urlBar, frame, window>>
    /\ UNCHANGED outsideLoad

\* lines 1156-1170: the page is stored; with a window the URL bar is
\* updated, the page encoded and the frame loaded with it
LoadShow ==
    /\ ldPc = "store"
    /\ htmlContent' = ldHtml
    /\ \E js1 \in JsOutcomes, encode \in {"ok", "raise"}, js2 \in JsOutcomes :
           LET raised == window /\ (js1 = "raise" \/ encode = "raise" \/ js2 = "raise")
           IN  /\ ldPc' = IF raised THEN "handler" ELSE "done"
               /\ urlBar' = IF js1 = "ok" THEN JsEscape(ldFinalUrl) ELSE urlBar
               /\ frame' = IF window /\ ~raised THEN ldHtml ELSE frame
               /\ ldFailures' =
                      ldFailures
                          \cup (IF js1 = "raise" \/ (encode = "ok" /\ js2 = "raise")
                                THEN {"js"} ELSE {})
                          \cup (IF window /\ js1 = "ok" /\ encode = "raise"
                                THEN {"encode"} ELSE {})
    /\ UNCHANGED <<summaryView, removeImages, filterReady, useFilter, ldUrl, ldHtml,
                   ldFinalUrl, loads, currentUrl, window, status>>
    /\ UNCHANGED outsideLoad

\* lines 1172-1177: the handler of the load thread; the exception of its
\* own status update leaves the thread
LoadHandler ==
    /\ ldPc = "handler"
    /\ \E js \in JsOutcomes :
           /\ ldPc' = IF js = "raise" THEN "escaped" ELSE "failed"
           /\ status' = StatusAfter(js, "Error")
    /\ UNCHANGED <<summaryView, removeImages, filterReady, useFilter, ldUrl, ldHtml,
                   ldFinalUrl, ldFailures, loads, currentUrl, htmlContent, urlBar,
                   frame, window>>
    /\ UNCHANGED outsideLoad

LoadNext ==
    \/ Navigate
    \/ LoadStart
    \/ LoadFetch
    \/ LoadSummaryView
    \/ LoadPage
    \/ LoadShow
    \/ LoadHandler

LoadSpec == LoadInit /\ [][LoadNext]_vars

(***************************************************************************)
(* Config(): constructions and reloads, each meeting some file.            *)
(***************************************************************************)

MaxConfigOps == 2

ConfigInit ==
    /\ ExtractIdle
    /\ SummaryIdle
    /\ FetchIdle
    /\ LoadOff
    /\ ConfigIdle
    /\ OcrIdle
    /\ PlayIdle
    /\ TileIdle
    /\ ShotIdle
    /\ RaceIdle

\* lines 31-38: Config(path); an exception of _load_config leaves no Config
ConfigConstruct ==
    /\ cfgOps < MaxConfigOps
    /\ \E file \in ConfigFiles :
           LET r == LoadConfig(heap, file, cfgOps + 1)
           IN  /\ cfgFile' = file
               /\ heap' = r.heap
               /\ config' = r.config
               /\ cfgError' = r.raised
    /\ cfgOps' = cfgOps + 1
    /\ UNCHANGED outsideConfig

\* lines 94-96: reload(); an exception of _load_config leaves _config as
\* it was
ConfigReload ==
    /\ cfgOps < MaxConfigOps
    /\ config # << >>
    /\ \E file \in ConfigFiles :
           LET r == LoadConfig(heap, file, cfgOps + 1)
           IN  /\ cfgFile' = file
               /\ heap' = r.heap
               /\ config' = IF r.raised = "" THEN r.config ELSE config
               /\ cfgError' = r.raised
    /\ cfgOps' = cfgOps + 1
    /\ UNCHANGED outsideConfig

ConfigNext ==
    \/ ConfigConstruct
    \/ ConfigReload

ConfigSpec == ConfigInit /\ [][ConfigNext]_vars

(***************************************************************************)
(* Several navigate calls whose load threads run together: a Browser with  *)
(* summary view off, use_filter left False.  A thread takes a step at each *)
(* access to the attributes of the Browser and to the window.              *)
(***************************************************************************)

MaxThreads == 2

Threads == 1..MaxThreads

RaceUrls == { <<"a", ".", "b">>, <<"c", ".", "d">> }

\* the request of url answered without a redirect, or timed out
RaceOutcomes(url) ==
    { [kind |-> "response", status |-> 200, length |-> << >>, ctype |-> "html",
       url |-> WithScheme(url)],
      [kind |-> "ReadTimeout", status |-> 0, length |-> << >>, ctype |-> "", url |-> << >>] }

RaceInit ==
    /\ ExtractIdle
    /\ FetchIdle
    /\ ConfigIdle
    /\ OcrIdle
    /\ PlayIdle
    /\ TileIdle
    /\ ShotIdle
    /\ window \in BOOLEAN
    /\ status = ""
    /\ progress = 0
    /\ svUrl = << >>
    /\ svSections = << >>
    /\ svPc = "off"
    /\ svI = 0
    /\ svCalls = << >>
    /\ svPage = << >>
    /\ LoadIdle
    /\ summaryView = FALSE
    /\ removeImages \in BOOLEAN
    /\ filterReady = FALSE
    /\ thPc = [t \in Threads |-> "idle"]
    /\ thUrl = [t \in Threads |-> << >>]
    /\ thHtml = [t \in Threads |-> NoPage]
    /\ thFinal = [t \in Threads |-> << >>]
    /\ contentUrl = << >>

\* lines 1179-1188: navigate starts load thread t
RaceNavigate(t) ==
    /\ thPc[t] = "idle"
    /\ \E url \in RaceUrls : thUrl' = [thUrl EXCEPT ![t] = url]
    /\ thPc' = [thPc EXCEPT ![t] = "started"]
    /\ UNCHANGED <<thHtml, thFinal, contentUrl, currentUrl, htmlContent, urlBar, frame,
                   window, status, removeImages>>
    /\ UNCHANGED outsideRace

\* lines 1109-1113: the status "Loading", the fetch, and the assignment of
\* current_url
RaceFetch(t) ==
    /\ thPc[t] = "started"
    /\ \E js \in JsOutcomes, outcome \in RaceOutcomes(thUrl[t]) :
           LET r == FetchUrl(thUrl[t], outcome)
           IN  IF js = "raise" \/ r.raised
               THEN /\ thPc' = [thPc EXCEPT ![t] = "handler"]
                    /\ UNCHANGED <<thHtml, thFinal, currentUrl, status>>
               ELSE /\ thPc' = [thPc EXCEPT ![t] = "process"]
                    /\ thHtml' = [thHtml EXCEPT ![t] = Page(r.kind)]
                    /\ thFinal' = [thFinal EXCEPT ![t] = r.url]
                    /\ currentUrl' = r.url
                    /\ status' = StatusAfter(js, "Loading")
    /\ UNCHANGED <<thUrl, contentUrl, htmlContent, urlBar, frame, window, removeImages>>
    /\ UNCHANGED outsideRace

\* lines 1132-1156 with use_filter False: media removal, the status
\* "Loaded", and the assignment of _html_content
RaceStore(t) ==
    /\ thPc[t] = "process"
    /\ \E js \in JsOutcomes :
           LET plain == IF removeImages THEN RemoveMedia(thHtml[t]) ELSE thHtml[t]
           IN  /\ thHtml' = [thHtml EXCEPT ![t] = plain]
               /\ IF js = "raise"
                  THEN /\ thPc' = [thPc EXCEPT ![t] = "handler"]
                       /\ UNCHANGED <<htmlContent, contentUrl, status>>
                  ELSE /\ thPc' = [thPc EXCEPT ![t] = "store"]
                       /\ htmlContent' = plain
                       /\ contentUrl' = thFinal[t]
                       /\ status' = StatusAfter(js, "Loaded")
    /\ UNCHANGED <<thUrl, thFinal, currentUrl, urlBar, frame, window, removeImages>>
    /\ UNCHANGED outsideRace

\* lines 1159-1170: with a window, the URL bar and the frame
RaceShow(t) ==
    /\ thPc[t] = "store"
    /\ \E js1 \in JsOutcomes, encode \in {"ok", "raise"}, js2 \in JsOutcomes :
           LET raised == window /\ (js1 = "raise" \/ encode = "raise" \/ js2 = "raise")
           IN  /\ thPc' = [thPc EXCEPT ![t] = IF raised THEN "handler" ELSE "done"]
               /\ urlBar' = IF js1 = "ok" THEN JsEscape(thFinal[t]) ELSE urlBar
               /\ frame' = IF window /\ ~raised THEN thHtml[t] ELSE frame
    /\ UNCHANGED <<thUrl, thHtml, thFinal, contentUrl, currentUrl, htmlContent, window,
                   status, removeImages>>
    /\ UNCHANGED outsideRace

\* lines 1172-1177: the handler of thread t
RaceHandler(t) ==
    /\ thPc[t] = "handler"
    /\ \E js \in JsOutcomes :
           /\ thPc' = [thPc EXCEPT ![t] = IF js = "raise" THEN "escaped" ELSE "failed"]
           /\ status' = StatusAfter(js, "Error")
    /\ UNCHANGED <<thUrl, thHtml, thFinal, contentUrl, currentUrl, htmlContent, urlBar,
                   frame, window, removeImages>>
    /\ UNCHANGED outsideRace

RaceNext ==
    \E t \in Threads :
        \/ RaceNavigate(t)
        \/ RaceFetch(t)
        \/ RaceStore(t)
        \/ RaceShow(t)
        \/ RaceHandler(t)

RaceSpec == RaceInit /\ [][RaceNext]_vars

(***************************************************************************)
(* Browser.take_screenshot and BrowserAPI.take_screenshot, between loads   *)
(* that store a page in _html_content.                                     *)
(***************************************************************************)

MaxShots == 3

\* the pages a load stores: the text of a response may be empty
StoredTexts == { << >>, <<"<", "p", ">", "a">>, <<"<", "p", ">", "b">> }

\* render_html_to_screenshot_sync returns the bytes or raises
RenderOutcomes == {"bytes", "raise"}

\* os.makedirs succeeds or raises
MakedirsOutcomes == {"ok", "OSError"}

ShotInit ==
    /\ ExtractIdle
    /\ SummaryIdle
    /\ FetchIdle
    /\ LoadOff
    /\ ConfigIdle
    /\ OcrIdle
    /\ PlayIdle
    /\ TileIdle
    /\ RaceIdle
    /\ ShotIdle

\* browser.py line 1156: a load stores its page
ShotStore ==
    /\ \E t \in StoredTexts : shContent' = [stored |-> TRUE, text |-> t]
    /\ shContent' # shContent
    /\ UNCHANGED <<shCall, shots>>
    /\ UNCHANGED outsideShot

\* browser.py lines 1212-1227: Browser.take_screenshot with the renderer's
\* outcome; "if not self._html_content" is true of None and of ''
BrowserTakeScreenshot(content, render) ==
    IF ~content.stored \/ content.text = << >>
    THEN [started |-> FALSE, rendered |-> << >>, raised |-> "ValueError"]
    ELSE [started  |-> TRUE,
          rendered |-> content.text,
          raised   |-> IF render = "raise" THEN "Exception" ELSE ""]

\* a call of Browser.take_screenshot
TakeScreenshot ==
    /\ shots < MaxShots
    /\ \E render \in RenderOutcomes :
           LET r == BrowserTakeScreenshot(shContent, render)
           IN  shCall' = [by |-> "Browser", content |-> shContent, started |-> r.started,
                          rendered |-> r.rendered, raised |-> r.raised,
                          returned |-> IF r.raised = "" THEN "bytes" ELSE ""]
    /\ shots' = shots + 1
    /\ UNCHANGED shContent
    /\ UNCHANGED outsideShot

\* browser.py lines 40-58: BrowserAPI.take_screenshot, whose try holds the
\* whole body
ApiTakeScreenshot ==
    /\ shots < MaxShots
    /\ \E makedirs \in MakedirsOutcomes, render \in RenderOutcomes :
           LET r      == BrowserTakeScreenshot(shContent, render)
               called == makedirs = "ok"
               failed == ~called \/ r.raised # ""
           IN  shCall' = [by |-> "BrowserAPI", content |-> shContent,
                          started  |-> called /\ r.started,
                          rendered |-> IF called THEN r.rendered ELSE << >>,
                          raised   |-> "",
                          returned |-> IF failed THEN "Error taking screenshot"
                                       ELSE "Screenshot saved to"]
    /\ shots' = shots + 1
    /\ UNCHANGED shContent
    /\ UNCHANGED outsideShot

ShotNext ==
    \/ ShotStore
    \/ TakeScreenshot
    \/ ApiTakeScreenshot

ShotSpec == ShotInit /\ [][ShotNext]_vars

(***************************************************************************)
(* crop_to_square_tiles.  A tile is the file name's number, the rows       *)
(* top..bottom-1 of the image it shows, and the size of the saved file.    *)
(***************************************************************************)

MaxWidth == 3
MaxHeight == 8

\* the overlap ratios 0.0, 0.25, 0.5, 0.75 and 1.0, which a float holds
\* exactly, so that tile_size * (1 - overlap) is computed without rounding
Overlaps == { [num |-> n, den |-> 4] : n \in 0..4 }

TileInputs ==
    [width : 1..MaxWidth, height : 1..MaxHeight, overlap : Overlaps]

\* line 401: int(tile_size * (1 - overlap)) truncates
Stride(tile_size, overlap) ==
    (tile_size * (overlap.den - overlap.num)) \div overlap.den

\* line 402
NumTiles(tile_size, height, stride) ==
    IF stride > 0 THEN (height - tile_size) \div stride + 1
    ELSE height \div tile_size

\* lines 412-425: the tile of one pass of the loop; a short tile is pasted
\* on a white square
LoopTile(i, tile_size, height, stride) ==
    LET top    == i * stride
        bottom == Min({top + tile_size, height})
    IN  [number |-> i + 1, top |-> top, bottom |-> bottom,
         w |-> tile_size,
         h |-> IF bottom - top < tile_size THEN tile_size ELSE bottom - top]

\* lines 427-434: the tile of the last rows
LastTile(num_tiles, tile_size, height, stride) ==
    LET last_top == (num_tiles - 1) * stride
    IN  IF num_tiles > 0 /\ last_top + tile_size < height
        THEN << [number |-> num_tiles + 1, top |-> height - tile_size,
                 bottom |-> height, w |-> tile_size, h |-> tile_size] >>
        ELSE << >>

\* lines 394-436
CropTiles(width, height, overlap) ==
    IF height <= width
    THEN [raised |-> "ValueError", tiles |-> << >>]
    ELSE LET tile_size == width
             stride    == Stride(tile_size, overlap)
             num_tiles == NumTiles(tile_size, height, stride)
         IN  [raised |-> "",
              tiles  |-> [i \in 1..num_tiles |->
                             LoopTile(i - 1, tile_size, height, stride)]
                         \o LastTile(num_tiles, tile_size, height, stride)]

TileInit ==
    /\ ExtractIdle
    /\ SummaryIdle
    /\ FetchIdle
    /\ LoadOff
    /\ ConfigIdle
    /\ OcrIdle
    /\ PlayIdle
    /\ RaceIdle
    /\ ShotIdle
    /\ tlPc = "called"
    /\ tlIn \in TileInputs
    /\ tlOut = NoTiles

\* a call of crop_to_square_tiles
CropToSquareTiles ==
    /\ tlPc = "called"
    /\ tlOut' = CropTiles(tlIn.width, tlIn.height, tlIn.overlap)
    /\ tlPc' = "done"
    /\ UNCHANGED tlIn
    /\ UNCHANGED outsideTile

TileNext == CropToSquareTiles

TileSpec == TileInit /\ [][TileNext]_vars

(***************************************************************************)
(* ScreenshotRenderer under render_html_to_screenshot_sync and             *)
(* render_url_to_screenshot_sync.  Every await on Playwright returns or    *)
(* raises.  A resource is "none" before it is started, "open" once it is,  *)
(* "closed" when its close returned and "close_failed" when it raised.     *)
(***************************************************************************)

MaxRenders == 2

Outcomes == {"ok", "raise"}

\* lines 188, 193, 198, 202: the wait condition of each attempt
WaitUntil == <<"networkidle", "domcontentloaded", "load", "none">>

\* lines 189-202, three attempts only
AfterFailureThree(n) ==
    IF n < Len(WaitUntil) - 1 THEN "goto" ELSE "raise"

\* lines 189-202: a failed attempt is followed by the next one, the last
\* by the exception leaving the try
AfterFailure(n) ==
    IF n < Len(WaitUntil) THEN "goto" ELSE "raise"

PlayInit ==
    /\ ExtractIdle
    /\ SummaryIdle
    /\ FetchIdle
    /\ LoadOff
    /\ ConfigIdle
    /\ OcrIdle
    /\ RaceIdle
    /\ ShotIdle
    /\ TileIdle
    /\ PlayIdle

\* lines 295-333, 336-380: a call makes a renderer and enters "async with"
RenderSync ==
    /\ pwPc \in {"idle", "done"}
    /\ pwCalls < MaxRenders
    /\ \E kind \in {"html", "url"}, sized \in BOOLEAN, path \in BOOLEAN :
           pwCall' = [kind |-> kind, sized |-> sized, path |-> path]
    /\ pwPc' = "start"
    /\ pwRes' = NoResources
    /\ pwNav' = << >>
    /\ pwOut' = NoOutput
    /\ pwCalls' = pwCalls + 1
    /\ UNCHANGED outsidePlay

\* lines 31-34, 40-63: __aenter__ awaits start(), which re-raises; when
\* __aenter__ raises, __aexit__ is not run
Start ==
    /\ pwPc = "start"
    /\ \E failed \in {"", "driver", "browser", "context"} :
           /\ pwRes' = [pwRes EXCEPT
                  !.driver  = IF failed = "driver" THEN "none" ELSE "open",
                  !.browser = IF failed \in {"driver", "browser"} THEN "none" ELSE "open",
                  !.context = IF failed = "" THEN "open" ELSE "none"]
           /\ pwOut' = [pwOut EXCEPT !.raised = IF failed = "" THEN "" ELSE "start"]
           /\ pwPc' = IF failed = "" THEN "new_page" ELSE "done"
    /\ UNCHANGED <<pwCall, pwNav, pwCalls>>
    /\ UNCHANGED outsidePlay

\* lines 101-111, 174-184: new_page is awaited outside the try
NewPage ==
    /\ pwPc = "new_page"
    /\ \E o \in Outcomes :
           IF o = "ok"
           THEN /\ pwRes' = [pwRes EXCEPT !.page = "open"]
                /\ pwPc' = IF pwCall.sized THEN "viewport"
                           ELSE IF pwCall.kind = "url" THEN "goto" ELSE "set_content"
                /\ UNCHANGED pwOut
           ELSE /\ pwOut' = [pwOut EXCEPT !.raised = "new_page"]
                /\ pwPc' = "stop"
                /\ UNCHANGED pwRes
    /\ UNCHANGED <<pwCall, pwNav, pwCalls>>
    /\ UNCHANGED outsidePlay

\* lines 108-111, 181-184
SetViewport ==
    /\ pwPc = "viewport"
    /\ \E o \in Outcomes :
           IF o = "ok"
           THEN /\ pwPc' = IF pwCall.kind = "url" THEN "goto" ELSE "set_content"
                /\ UNCHANGED pwOut
           ELSE /\ pwOut' = [pwOut EXCEPT !.raised = "viewport"]
                /\ pwPc' = "close_page"
    /\ UNCHANGED <<pwCall, pwRes, pwNav, pwCalls>>
    /\ UNCHANGED outsidePlay

\* lines 113-117: set_content and the wait after it
SetContent ==
    /\ pwPc = "set_content"
    /\ \E o \in Outcomes :
           IF o = "ok"
           THEN /\ pwPc' = "screenshot"
                /\ UNCHANGED pwOut
           ELSE /\ pwOut' = [pwOut EXCEPT !.raised = "set_content"]
                /\ pwPc' = "close_page"
    /\ UNCHANGED <<pwCall, pwRes, pwNav, pwCalls>>
    /\ UNCHANGED outsidePlay

\* lines 186-202: one attempt of page.goto
Goto ==
    /\ pwPc = "goto"
    /\ \E o \in Outcomes :
           LET n == Len(pwNav) + 1
           IN  /\ pwNav' = Append(pwNav, [wait |-> WaitUntil[n], ok |-> o = "ok"])
               /\ IF o = "ok"
                  THEN /\ pwPc' = "paywall"
                       /\ UNCHANGED pwOut
                  ELSE IF AfterFailure(n) = "goto"
                  THEN /\ pwPc' = "goto"
                       /\ UNCHANGED pwOut
                  ELSE /\ pwOut' = [pwOut EXCEPT !.raised = "goto"]
                       /\ pwPc' = "close_page"
    /\ UNCHANGED <<pwCall, pwRes, pwCalls>>
    /\ UNCHANGED outsidePlay

\* lines 204-265: the overlays are hidden, or the exception is logged
Paywall ==
    /\ pwPc = "paywall"
    /\ \E o \in Outcomes : pwPc' = "screenshot"
    /\ UNCHANGED <<pwCall, pwRes, pwNav, pwOut, pwCalls>>
    /\ UNCHANGED outsidePlay

\* lines 119-142, 267-290: page.screenshot, then the file when a path is
\* given; the except clause re-raises
Screenshot ==
    /\ pwPc = "screenshot"
    /\ \E shot \in Outcomes, save \in Outcomes :
           /\ pwOut' = [pwOut EXCEPT
                  !.shotCalled = TRUE,
                  !.shot   = shot = "ok",
                  !.file   = shot = "ok" /\ pwCall.path /\ save = "ok",
                  !.raised = IF shot = "raise" THEN "screenshot"
                             ELSE IF pwCall.path /\ save = "raise" THEN "save"
                             ELSE ""]
    /\ pwPc' = "close_page"
    /\ UNCHANGED <<pwCall, pwRes, pwNav, pwCalls>>
    /\ UNCHANGED outsidePlay

\* lines 143-144, 291-292: finally
ClosePage ==
    /\ pwPc = "close_page"
    /\ \E o \in Outcomes :
           IF o = "ok"
           THEN /\ pwRes' = [pwRes EXCEPT !.page = "closed"]
                /\ UNCHANGED pwOut
           ELSE /\ pwRes' = [pwRes EXCEPT !.page = "close_failed"]
                /\ pwOut' = [pwOut EXCEPT !.raised = "close_page"]
    /\ pwPc' = "stop"
    /\ UNCHANGED <<pwCall, pwNav, pwCalls>>
    /\ UNCHANGED outsidePlay

\* lines 36-38, 65-75: __aexit__ awaits stop(), whose except clause logs the
\* first close that raises and leaves the later ones out
Stop ==
    /\ pwPc = "stop"
    /\ \E failed \in {"", "context", "browser", "driver"} :
           pwRes' = [pwRes EXCEPT
               !.context = IF failed = "context" THEN "close_failed" ELSE "closed",
               !.browser = IF failed = "context" THEN "open"
                           ELSE IF failed = "browser" THEN "close_failed"
                           ELSE "closed",
               !.driver  = IF failed \in {"context", "browser"} THEN "open"
                           ELSE IF failed = "driver" THEN "close_failed"
                           ELSE "closed"]
    /\ pwPc' = "done"
    /\ UNCHANGED <<pwCall, pwNav, pwOut, pwCalls>>
    /\ UNCHANGED outsidePlay

PlayNext ==
    \/ RenderSync
    \/ Start
    \/ NewPage
    \/ SetViewport
    \/ SetContent
    \/ Goto
    \/ Paywall
    \/ Screenshot
    \/ ClosePage
    \/ Stop

PlaySpec == PlayInit /\ [][PlayNext]_vars

(***************************************************************************)
(* get_ocr_client called from threads.  A thread can be switched out       *)
(* between its test of _ocr_instance, its assignment and its return.       *)
(***************************************************************************)

MaxOcrCalls == 3

ApiUrls == { <<"a">>, <<"a", "/">>, <<"b">> }
OcrModels == {"m1", "m2"}

\* ocr_utils.py line 32: api_url.rstrip('/')
RStripSlash(s) ==
    LET keep == {i \in 1..Len(s) : s[i] # "/"}
    IN  IF keep = {} THEN << >> ELSE SubSeq(s, 1, Len(s) - Min({Len(s) - i : i \in keep}))

\* ocr_utils.py lines 19-36: DeepSeekOCR.__init__
DeepSeekOCR(api_url, model) ==
    [api_url |-> RStripSlash(api_url), model |-> model]

\* ocr_utils.py line 317: _ocr_instance = None
OcrInit ==
    /\ ExtractIdle
    /\ SummaryIdle
    /\ FetchIdle
    /\ LoadOff
    /\ ConfigIdle
    /\ RaceIdle
    /\ ShotIdle
    /\ TileIdle
    /\ PlayIdle
    /\ ocInstance = 0
    /\ ocObjects = << >>
    /\ ocPc = [t \in Threads |-> "idle"]
    /\ ocArgs = [t \in Threads |-> [api_url |-> << >>, model |-> ""]]
    /\ ocCalls = << >>
    /\ ocReturned = {}

\* lines 320-334: a thread calls get_ocr_client and tests
\* "if _ocr_instance is None"; the calls are kept in the order of the test
GetOcrClient(t) ==
    /\ ocPc[t] = "idle"
    /\ Len(ocCalls) < MaxOcrCalls
    /\ \E api_url \in ApiUrls, model \in OcrModels :
           /\ ocArgs' = [ocArgs EXCEPT ![t] = [api_url |-> api_url, model |-> model]]
           /\ ocCalls' = Append(ocCalls, [api_url |-> api_url, model |-> model])
    /\ ocPc' = [ocPc EXCEPT ![t] = IF ocInstance = 0 THEN "construct" ELSE "return"]
    /\ UNCHANGED <<ocInstance, ocObjects, ocReturned>>
    /\ UNCHANGED outsideOcr

\* line 335: _ocr_instance = DeepSeekOCR(api_url=api_url, model=model)
OcrConstruct(t) ==
    /\ ocPc[t] = "construct"
    /\ ocObjects' = Append(ocObjects, DeepSeekOCR(ocArgs[t].api_url, ocArgs[t].model))
    /\ ocInstance' = Len(ocObjects) + 1
    /\ ocPc' = [ocPc EXCEPT ![t] = "return"]
    /\ UNCHANGED <<ocArgs, ocCalls, ocReturned>>
    /\ UNCHANGED outsideOcr

\* line 336: return _ocr_instance
OcrReturn(t) ==
    /\ ocPc[t] = "return"
    /\ ocReturned' = ocReturned \cup {ocInstance}
    /\ ocPc' = [ocPc EXCEPT ![t] = "idle"]
    /\ UNCHANGED <<ocInstance, ocObjects, ocArgs, ocCalls>>
    /\ UNCHANGED outsideOcr

OcrNext ==
    \E t \in Threads :
        \/ GetOcrClient(t)
        \/ OcrConstruct(t)
        \/ OcrReturn(t)

OcrSpec == OcrInit /\ [][OcrNext]_vars

(***************************************************************************)
(* Vocabulary of the properties, stated on the input and on the headings   *)
(* found in it                                                             *)
(***************************************************************************)

\* the html between the end of heading i and the start of heading i + 1,
\* or the document's end for the last heading
SpanAfter(i) ==
    Slice(html, headings[i].end + 1,
          IF i < Len(headings) THEN headings[i + 1].start ELSE Len(html))

\* the text that follows heading i
FollowingText(i) == ExtractTextContent(SpanAfter(i))

\* the text between the opening and the closing tag of heading i
InnerOf(i) == Search(html, headings[i].start + 1, "h").inner

\* the title of heading i is empty once its inner markup is stripped
EmptyTitle(i) == Strip(SubTags(InnerOf(i), 1, << >>)) = << >>

\* heading i has a non-empty title and non-empty following text
Qualifies(i) == headings[i].title # << >> /\ FollowingText(i) # << >>

\* the section heading i stands for
Candidate(i) == [title |-> headings[i].title, content |-> FollowingText(i)]

NonEmptySection(r) == r.title # << >> /\ r.content # << >>

\* the sections of the headings, in the order of the document
InDocumentOrder ==
    SelectSeq([i \in 1..Len(headings) |-> Candidate(i)], NonEmptySection)

\* some heading yields a section in the heading-based path
PrimaryEmits == \E i \in 1..Len(headings) : Qualifies(i)

\* the blocks of one heading with a plain title and one paragraph after it
WellFormed == {"A", "B", "C"}

BlockTitle == [A |-> Intro, B |-> NextT, C |-> <<"T">>]

BlockBody == [A |-> Hello, B |-> Bye, C |-> <<"c">>]

(***************************************************************************)
(* Properties                                                              *)
(***************************************************************************)

\* C1: for every input, extract_sections returns at most 10 sections,
\* whether they come from the headings or from the fallback.
C1_AtMostTenSections == pc = "done" => Len(result) <= 10

\* more than 10 sections were collected and 10 returned
C1_Witness == pc = "done" /\ Len(sections) > 10 /\ Len(result) = 10

C3_ExactSections ==
    (/\ pc = "done"
     /\ Len(parts) \in 1..10
     /\ \A i \in 1..Len(parts) : parts[i] \in WellFormed)
        => result = [i \in 1..Len(parts) |->
                        [title |-> BlockTitle[parts[i]], content |-> BlockBody[parts[i]]]]

\* the document <h1>Intro</h1><p>Hello world.</p><h1>Next</h1><p>Bye.</p>
C3_Witness ==
    /\ pc = "done"
    /\ parts = <<"A", "B">>
    /\ result = << [title |-> Intro, content |-> Hello],
                   [title |-> NextT, content |-> Bye] >>

\* C4: the sections of a result are in document order, and each has a
\* non-empty title and a non-empty content.
C4_OrderedNonEmpty ==
    pc = "done" =>
        /\ \A j \in 1..Len(result) : NonEmptySection(result[j])
        /\ ~fallback => result = Take(InDocumentOrder, 10)
        /\ fallback =>
               \A j \in 1..Len(result) :
                   LET p == paragraphs[2 * j - 1]
                   IN  /\ Len(result[j].content) >= Len(p)
                       /\ SubSeq(result[j].content, 1, Len(p)) = p

\* two different sections were returned and some heading gave none
C4_Witness ==
    /\ pc = "done"
    /\ ~fallback
    /\ Len(result) >= 2
    /\ result[1] # result[2]
    /\ Len(result) < Len(headings)

\* C5: a heading whose title is empty once its inner markup is stripped
\* adds no section in the heading-based path, whatever follows it.
C5_EmptyTitleEmitsNothing ==
    [][(pc = "headings" /\ idx < Len(headings) /\ EmptyTitle(idx + 1))
           => sections' = sections]_vars

\* the loop has passed a heading with an empty title and text after it
C5_Witness ==
    /\ pc = "headings"
    /\ idx >= 1
    /\ EmptyTitle(idx)
    /\ FollowingText(idx) # << >>
    /\ sections = << >>

\* C6: the content of every returned section holds at most 6 paragraphs,
\* the pieces of the content between blank lines.
C6_AtMostSixParagraphs ==
    pc = "done" => \A j \in 1..Len(result) : Len(Split(result[j].content)) <= 6

\* a section was returned for a heading followed by more than 6 blocks of
\* text with blank lines between them
C6_Witness ==
    /\ pc = "done"
    /\ ~fallback
    /\ result # << >>
    /\ \E i \in 1..Len(headings) : Qualifies(i) /\ Len(Split(SpanAfter(i))) > 6

\* every character of s is white space
WhitespaceOnly(s) == \A i \in 1..Len(s) : IsSpace(s[i])

\* decoding the entities of s once more changes nothing
DecodedOnce(s) == Unescape(Unescape(s)) = Unescape(s)

\* C7 as stated: for every input without tags, entities or not, extracting
\* the text of the extracted text gives the extracted text.
C7_Original == (pc = "text2" /\ ~HasTag(html)) => text2 = text

\* C7 amended: the same for every input without tags whose text with the
\* entities decoded holds no tag and no further entity.
C7_IdempotentOnDecodedText ==
    (/\ pc = "text2"
     /\ ~HasTag(html)
     /\ ~HasTag(Unescape(html))
     /\ DecodedOnce(html))
        => text2 = text

\* an input without tags, with an entity and with white space to clean up
C7_Witness ==
    /\ pc = "text2"
    /\ ~HasTag(html)
    /\ ~HasTag(Unescape(html))
    /\ DecodedOnce(html)
    /\ HasRef(html)
    /\ text # << >>
    /\ text # Unescape(html)
    /\ text2 = text

\* C8: extract_text and extract_sections return for every input and raise
\* nothing; for an empty or white-space-only input the text is empty and
\* the list of sections is empty.
C8_TotalAndEmptyOnBlank ==
    /\ pc # "raised"
    /\ pc = "headings" => idx <= Len(headings)
    /\ WhitespaceOnly(html) =>
           /\ pc \in {"text", "text2"} => text = << >>
           /\ pc = "done" => result = << >>

\* extract_sections returned for a non-empty input of white space only
C8_Witness ==
    /\ pc = "done"
    /\ html # << >>
    /\ WhitespaceOnly(html)
    /\ result = << >>

PieceAt(p) == FirstIn({i \in 1..Len(parts) : parts[i] = p})

\* position of the first piece p after position b, 0 when none
PieceAfter(p, b) == FirstIn({i \in (b + 1)..Len(parts) : parts[i] = p})

\* the working span the input's pieces call for: the inside of the first
\* article, else of the first main, else of the first body, else nothing
ExpectedSpan ==
    IF PieceAt("art") # 0 THEN Rep("y", 51)
    ELSE IF PieceAt("main") # 0 THEN Rep("z", 51)
    ELSE IF PieceAt("mo") # 0
    THEN Concat(Slice(parts, PieceAt("mo") + 1, PieceAfter("mc", PieceAt("mo")) - 1))
    ELSE IF PieceAt("body") # 0 /\ PieceAfter("bodyend", PieceAt("body")) # 0
    THEN Concat(Slice(parts, PieceAt("body") + 1,
                      PieceAfter("bodyend", PieceAt("body")) - 1))
    ELSE << >>

\* C10: the fallback works on the inside of the first article if there is
\* one, else of the first main, else of the first body, whatever their
\* order in the document; with none of them it returns no section.
C10_ArticleMainBody ==
    fallback =>
        /\ span = ExpectedSpan
        /\ (pc = "done" /\ ExpectedSpan = << >>) => result = << >>

\* a main before an article: the fallback worked on the article
C10_Witness ==
    /\ pc = "done"
    /\ fallback
    /\ PieceAt("main") # 0
    /\ PieceAt("main") < PieceAt("art")
    /\ span = Rep("y", 51)
    /\ result # << >>

\* the pieces between blank lines of the text of the working span, stripped
SpanParagraphs ==
    LET ps == Split(ExtractTextContent(span))
    IN  [k \in 1..Len(ps) |-> Strip(ps[k])]

\* p is one of the paragraphs the fallback kept
Kept(p) == \E j \in 1..Len(paragraphs) : paragraphs[j] = p

\* C11 as stated: in the fallback a paragraph of the working span's text is
\* discarded if and only if it has less than 50 characters; every paragraph
\* of 50 or more characters survives.
C11_Original ==
    (fallback /\ span # << >>) =>
        \A k \in 1..Len(SpanParagraphs) :
            ~Kept(SpanParagraphs[k]) <=> Len(SpanParagraphs[k]) < 50

\* C11 amended: in the fallback a paragraph of the working span's text is
\* discarded if and only if it has at most 50 characters; every paragraph
\* of more than 50 characters survives, and nothing else is kept.
C11_DiscardedIffAtMostFifty ==
    (fallback /\ span # << >>) =>
        /\ \A k \in 1..Len(SpanParagraphs) :
               ~Kept(SpanParagraphs[k]) <=> Len(SpanParagraphs[k]) <= 50
        /\ \A j \in 1..Len(paragraphs) :
               \E k \in 1..Len(SpanParagraphs) : paragraphs[j] = SpanParagraphs[k]

\* the working span's text is one paragraph of exactly 50 characters, and
\* the fallback dropped it and returned nothing
C11_Witness ==
    /\ pc = "done"
    /\ fallback
    /\ SpanParagraphs = <<Rep("x", 50)>>
    /\ paragraphs = << >>
    /\ result = << >>

\* the text of the paragraph pieces
ParaText ==
    [x50 |-> Rep("x", 50), p51 |-> Rep("p", 51), q60 |-> Rep("q", 60),
     l101 |-> Rep("l", 101)]

\* the input is a <main> of paragraphs with blank lines between them
IsFallbackDoc == parts # << >> /\ parts[1] = "mo"

\* the paragraphs of such an input
DocParas == [k \in 1..((Len(parts) - 1) \div 2) |-> ParaText[parts[2 * k]]]

\* all of them are longer than the noise filter's 50 characters
AllPass == \A k \in 1..Len(DocParas) : Len(DocParas[k]) > 50

\* C12 as stated: when the working span of the fallback holds n paragraphs
\* with blank lines between them that all pass the noise filter, the result
\* holds one section for each index i of 0, 2, 4 with i < n, and the
\* content of the section of index i is the paragraphs i to i + 5 that
\* exist, joined by blank lines.
C12_AsStated ==
    (pc = "done" /\ IsFallbackDoc /\ AllPass) =>
        /\ Len(result) = Cardinality({i \in {0, 2, 4} : i < Len(DocParas)})
        /\ \A j \in 1..Len(result) :
               result[j].content = Join(PySlice(DocParas, 2 * (j - 1), 2 * (j - 1) + 6))

\* paragraph p cut to a title
Truncated(p) ==
    IF Len(p) <= 100 THEN p ELSE SubSeq(p, 1, 100) \o <<".", ".", ".">>

\* C13 as stated: for an input without headings whose <main> holds five
\* paragraphs of more than 50 characters each, the result holds at least
\* one section, and the title of the first is the first paragraph when it
\* has at most 100 characters, else its first 100 characters and "...";
\* the title holds no text of a later paragraph.
C13_AsStated ==
    (pc = "done" /\ IsFallbackDoc /\ headings = << >> /\ Len(DocParas) = 5 /\ AllPass) =>
        /\ Len(result) >= 1
        /\ result[1].title = Truncated(DocParas[1])

\* the input of _extract_text_content without its script and style
\* elements and its tags, entities decoded
TagStripped(s) ==
    Unescape(SubTags(RemoveElems(RemoveElems(s, 1, "script"), 1, "style"), 1, <<" ">>))

\* the blocks of text of s that blank lines separate
TextBlocks(s) ==
    SelectSeq(Split(CollapseBlankLines(s, 1)), LAMBDA b : ~WhitespaceOnly(b))

\* C14 as stated: the result of extract_text has no leading and no trailing
\* white space, every run of white space inside a line is one space, and
\* the blocks of text that one or more blank lines separate in the
\* tag-stripped input are separated by exactly one blank line in the
\* result.
C14_AsStated ==
    pc = "text" =>
        /\ text # << >> => ~IsSpace(text[1]) /\ ~IsSpace(text[Len(text)])
        /\ \A i \in 1..Len(text) :
               (IsSpace(text[i]) /\ text[i] # "\n") =>
                   /\ text[i] = " "
                   /\ i > 1 => text[i - 1] # " "
        /\ TextBlocks(TagStripped(html)) # << >> =>
               /\ Len(Split(text)) = Len(TextBlocks(TagStripped(html)))
               /\ \A k \in 1..Len(Split(text)) : Strip(Split(text)[k]) # << >>

\* the summary call of section k failed
CallFailed(k) == svCalls[k].response.kind \in Failures

\* the titles of the page, in its order
PageTitles == SelectSeq(svPage, LAMBDA part : part.kind = "section-title")

\* the <li> parts of the page between the title of section k and the next
RECURSIVE BulletsAfter(_, _)
BulletsAfter(page, i) ==
    IF i > Len(page) \/ page[i].kind \in {"section-title", "tail"} THEN << >>
    ELSE (IF page[i].kind = "li" THEN <<page[i]>> ELSE << >>) \o BulletsAfter(page, i + 1)

\* C15: in _create_summary_view, when the summary call of a section fails,
\* that section gets the empty summary, the call of every other section is
\* still made and its bullets kept, no exception leaves the function once
\* the loop runs, and the page lists all the sections in their order.
C15_FailedSummaryIsEmpty ==
    /\ svPc = "raised" => svCalls = << >>
    /\ svPc \in {"loop", "returned"} =>
           /\ Len(svCalls) = svI
           /\ \A k \in 1..Len(svCalls) :
                  /\ svSections[k].has
                  /\ CallFailed(k) => svSections[k].summary = << >>
                  /\ (~CallFailed(k) /\ svCalls[k].js # "raise") =>
                         svSections[k].summary = GenerateSummaryBullets(svCalls[k].response)
    /\ (svPc = "returned" /\ svSections # << >>) =>
           /\ svI = Len(svSections)
           /\ PageTitles = [k \in 1..Len(svSections) |->
                               Part("section-title", EscapeHtml(svSections[k].title), << >>)]

\* two different sections, the call of the first failed, the second has
\* bullets, and the page lists both
C15_Witness ==
    /\ svPc = "returned"
    /\ Len(svSections) = 2
    /\ svSections[1].title # svSections[2].title
    /\ svCalls[1].response.kind = "raise"
    /\ svSections[1].summary = << >>
    /\ svSections[2].summary # << >>
    /\ Len(PageTitles) = 2

\* the characters _escape_html replaces, with what it writes after the "&"
EntityOf ==
    [amp  |-> [char |-> "&", tail |-> <<"a", "m", "p", ";">>],
     lt   |-> [char |-> "<", tail |-> <<"l", "t", ";">>],
     gt   |-> [char |-> ">", tail |-> <<"g", "t", ";">>],
     quot |-> [char |-> "\"", tail |-> <<"q", "u", "o", "t", ";">>],
     apos |-> [char |-> "'", tail |-> <<"#", "x", "2", "7", ";">>]]

\* the entities whose text follows the "&" at position i of t
EntitiesAt(t, i) ==
    {e \in DOMAIN EntityOf :
        /\ i + Len(EntityOf[e].tail) <= Len(t)
        /\ SubSeq(t, i + 1, i + Len(EntityOf[e].tail)) = EntityOf[e].tail}

\* t holds none of < > " ' and "&" only at the start of one of the entities
Safe(t) ==
    \A i \in 1..Len(t) :
        /\ t[i] \notin {"<", ">", "\"", "'"}
        /\ t[i] = "&" => EntitiesAt(t, i) # {}

\* t from position i on, each of the five entities read back as its character
RECURSIVE Decoded(_, _)
Decoded(t, i) ==
    LET b == FirstChar(t, i, "&")
    IN  IF b = 0 THEN Slice(t, i, Len(t))
        ELSE IF EntitiesAt(t, b) = {} THEN Slice(t, i, b) \o Decoded(t, b + 1)
        ELSE LET e == CHOOSE e \in EntitiesAt(t, b) : TRUE
             IN  Slice(t, i, b - 1) \o <<EntityOf[e].char>>
                     \o Decoded(t, b + Len(EntityOf[e].tail) + 1)

\* the parts of the page that hold a title, a bullet or a content
Inserted == SelectSeq(svPage, LAMBDA part : part.kind \in {"section-title", "li", "original-content"})

\* the bullets of a summary as the page shows them, marks and blanks removed
ShownBullets(summary) ==
    LET bullets == SelectSeq(SplitOn(summary, 1, "\n"), LAMBDA b : Strip(b) # << >>)
    IN  [k \in 1..Len(bullets) |-> Strip(LStrip(bullets[k], {"-", BULLET, "*", " "}))]

\* the texts the page is to show for section sec, in the order of the page
RECURSIVE ShownTexts(_)
ShownTexts(secs) ==
    IF secs = << >> THEN << >>
    ELSE <<secs[1].title>> \o ShownBullets(secs[1].summary) \o <<secs[1].content>>
             \o ShownTexts(Tail(secs))

\* C18: in the summary page every section title, every bullet and every
\* section content is inserted through _escape_html only: the inserted text
\* holds none of < > " ' and holds "&" only as the first character of one
\* of &amp; &lt; &gt; &quot; &#x27;, and read back it is the original text.
C18_InsertedTextIsEscaped ==
    (svPc = "returned" /\ svSections # << >>) =>
        /\ Len(Inserted) = Len(ShownTexts(svSections))
        /\ \A k \in 1..Len(Inserted) :
               /\ Inserted[k].raw = << >>
               /\ Safe(Inserted[k].text)
               /\ Decoded(Inserted[k].text, 1) = ShownTexts(svSections)[k]

\* a page with a title of "&" and "'", a content with the text of an entity
\* and both quotes, and a bullet with a tag
C18_Witness ==
    /\ svPc = "returned"
    /\ Len(svSections) = 1
    /\ svSections[1].title = <<"&", "'">>
    /\ svSections[1].content = <<"'", "&", "l", "t", ";", "\"">>
    /\ \E k \in 1..Len(Inserted) :
           Inserted[k] = Part("li", <<"&", "l", "t", ";", "b", "&", "g", "t", ";">>, << >>)
    /\ \E k \in 1..Len(Inserted) :
           Inserted[k] = Part("section-title",
                              <<"&", "a", "m", "p", ";", "&", "#", "x", "2", "7", ";">>, << >>)

\* the request failed: an exception, an error status, or a Content-Length
\* above 10 MB
RequestFailed ==
    \/ fOutcome.kind # "response"
    \/ fOutcome.status >= 400
    \/ fOutcome.length = <<"1", "0", "4", "8", "5", "7", "6", "1">>

\* C16: for every url and every outcome of the request, _fetch_url returns
\* a pair of a page and a url and raises nothing; for an empty or invalid
\* url and for a failed request the page is an error page.
C16_FetchAlwaysReturns ==
    /\ fPc # "raised"
    /\ fPc = "returned" =>
           /\ fResult.kind \in {"page", "pre", "error"}
           /\ (UrlIsEmpty(fUrl) \/ UrlIsInvalid(fUrl) \/ RequestFailed) =>
                  fResult.kind = "error" /\ fResult.heading # ""
           /\ fResult.kind = "error" =>
                  fResult.url = IF UrlIsEmpty(fUrl) THEN fUrl ELSE WithScheme(fUrl)
           /\ fResult.kind # "error" => fResult.url = fOutcome.url

\* an exception that only the last except clause names, for a valid url
C16_Witness ==
    /\ fPc = "returned"
    /\ fUrl = <<"a", ".", "b">>
    /\ fOutcome.kind = "OtherError"
    /\ fResult.kind = "error"
    /\ fResult.heading = "UNEXPECTED ERROR"
    /\ fResult.url = Https \o <<"a", ".", "b">>


(***************************************************************************)
(* Claims about the load thread.                                           *)
(***************************************************************************)

\* the only failure of the load so far is that of the content filter
OnlyFilterFailed == ~summaryView /\ ldFailures = {"filter"}

\* the fetched page, after media removal when configured, not filtered
Unfiltered ==
    [src |-> ldHtml.src, media |-> ~removeImages, view |-> "original"]

C19_AsStated ==
    /\ ldPc # "escaped"
    /\ (ldPc = "failed" /\ window) => status = "Error"
    /\ (ldPc \in {"done", "failed", "escaped"} /\ loads < MaxLoads) => ENABLED Navigate


(***************************************************************************)
(* Claims about Config.                                                    *)
(***************************************************************************)

\* the configuration is the one loaded from the mapping of cfgFile
LoadedFromMapping == config # << >> /\ cfgError = "" /\ cfgFile.kind = "mapping"

\* the file sets the key k of the group g
FileSets(g, k) ==
    /\ g \in FileKeys(cfgFile)
    /\ k \in DOMAIN FileGroup(cfgFile, g).items

\* C20: after a load from a file that holds a mapping, every key of the
\* groups ollama, filtering and display reads as the value the file gives
\* it when the file sets it, and as its DEFAULT_CONFIG value when the file
\* does not, also when the file sets other keys of the same group.
C20_AsStated ==
    LoadedFromMapping =>
        \A g \in Groups : \A k \in DOMAIN DefaultGroup[g] :
            Property(heap, config, g, k) =
                IF FileSets(g, k) THEN FileGroup(cfgFile, g).items[k]
                ELSE DefaultGroup[g][k]


(***************************************************************************)
(* Claims about the spans of the headings and the returned sections.       *)
(***************************************************************************)

\* the headings have been located
Located == pc \in {"headings", "fallback", "return", "done"}

\* the offsets of html[end_i : start_(i+1)], to the document's end for the
\* last heading
SpanOffsets(i) ==
    {k \in 0..(Len(html) - 1) :
        /\ headings[i].end <= k
        /\ k < (IF i < Len(headings) THEN headings[i + 1].start ELSE Len(html))}

\* the content computed from the span of heading i alone
SpanContent(i) == Join(Take(Paragraphs(ExtractTextContent(SpanAfter(i)), 0), MaxParagraphs))

\* the offset at which the span of heading i ends
SpanEnd(i) == IF i < Len(headings) THEN headings[i + 1].start ELSE Len(html)

\* C22: the headings located by extract_sections are in strictly increasing
\* offset order and do not overlap; the span html[end_i : start_(i+1)] of a
\* heading ends before any later heading, and so before any later span,
\* starts; and the content of the section appended for heading i is the
\* text of the span of heading i alone.
C22_DisjointSpans ==
    Located =>
        /\ \A i \in 1..Len(headings) :
               /\ 0 <= headings[i].start
               /\ headings[i].start < headings[i].end
               /\ headings[i].end <= SpanEnd(i)
               /\ SpanEnd(i) <= Len(html)
               /\ \A j \in (i + 1)..Len(headings) :
                      /\ headings[i].start < headings[j].start
                      /\ headings[i].end <= headings[j].start
                      /\ SpanEnd(i) <= headings[j].start
        /\ (pc = "headings" /\ idx > 0 /\ Qualifies(idx)) =>
               /\ sections # << >>
               /\ sections[Len(sections)].content = SpanContent(idx)

C22_Witness ==
    /\ pc = "headings"
    /\ idx = 2
    /\ Len(headings) = 3
    /\ Len(sections) = 2
    /\ sections[1].content # sections[2].content
    /\ SpanOffsets(1) # {}
    /\ SpanOffsets(2) # {}


\* s is not empty and carries no leading or trailing white space
Trimmed(s) == s # << >> /\ Strip(s) = s

\* C29: every section returned by extract_sections has a title and a
\* content that are not empty and carry no leading or trailing white space.
C29_AsStated ==
    pc = "done" =>
        \A k \in 1..Len(result) : Trimmed(result[k].title) /\ Trimmed(result[k].content)


(***************************************************************************)
(* Claims about the summaries kept by _create_summary_view.                *)
(***************************************************************************)

\* the bullets the summary call of section k returned
Returned(k) == GenerateSummaryBullets(svCalls[k].response)

\* C30: in _create_summary_view, when the summary call of section k has
\* returned bullets, the summary of section k is those bullets, whether the
\* progress update that follows succeeded or raised, and the page returned
\* is the page of the sections with those summaries.
C30_AsStated ==
    /\ svPc \in {"loop", "returned"} =>
           \A k \in 1..Len(svCalls) :
               Returned(k) # << >> => svSections[k].summary = Returned(k)
    /\ (svPc = "returned" /\ svSections # << >>) =>
           svPage = CreateSummaryHtml(
                        [k \in 1..Len(svSections) |->
                            [svSections[k] EXCEPT !.summary = Returned(k)]], svUrl)


\* the dicts of DEFAULT_CONFIG are as the class defines them
DefaultsIntact ==
    /\ heap[DefaultRef] = Dict(DEFAULT_CONFIG)
    /\ \A g \in Groups : heap[<<0, g>>] = Dict(DefaultGroup[g])

\* what a Config constructed now, with no file, reads for key k of group g
FreshProperty(g, k) ==
    LET r == LoadConfig(heap, NoFile, cfgOps + 1)
    IN  Property(r.heap, r.config, g, k)

\* C27: after any sequence of Config constructions and reloads, whatever
\* the files they met, DEFAULT_CONFIG and its nested dicts ollama,
\* filtering and display are unchanged, a Config constructed next with no
\* file reads the default value of every key, and the Config of the last
\* load, when that load met no file, reads them too.
C27_DefaultsUnchanged ==
    /\ DefaultsIntact
    /\ \A g \in Groups : \A k \in DOMAIN DefaultGroup[g] :
           /\ FreshProperty(g, k) = DefaultGroup[g][k]
           /\ (config # << >> /\ cfgError = "" /\ cfgFile.kind = "absent") =>
                  /\ Property(heap, config, g, k) = DefaultGroup[g][k]
                  /\ heap[config].items.topics = DefaultTopics

\* a first load from a file that sets ollama.model, then a load without
\* a file
C27_Witness ==
    /\ cfgOps = 2
    /\ <<1, "ollama">> \in DOMAIN heap
    /\ "model" \in DOMAIN heap[<<1, "ollama">>].items
    /\ cfgFile.kind = "absent"
    /\ config = <<2, "merged">>
    /\ Property(heap, config, "ollama", "model") = "qwen2.5:1.5b"


(***************************************************************************)
(* Claims about concurrent loads.                                          *)
(***************************************************************************)

\* C26: once the load threads of all the navigate calls have finished
\* without an exception, _html_content is the page of the navigation whose
\* final URL current_url holds.
C26_AsStated ==
    (\A t \in Threads : thPc[t] = "done") => contentUrl = currentUrl


(***************************************************************************)
(* Claims about take_screenshot.                                           *)
(***************************************************************************)

\* C24: a call of Browser.take_screenshot made before any load has stored
\* a page raises ValueError and starts no renderer; a call made once a load
\* has stored a page starts the renderer with exactly the stored page; and
\* BrowserAPI.take_screenshot never raises, and returns a text that starts
\* with 'Error taking screenshot' whenever it did not save a screenshot.
C24_AsStated ==
    /\ (shCall.by = "Browser" /\ ~shCall.content.stored) =>
           /\ shCall.raised = "ValueError"
           /\ ~shCall.started
    /\ (shCall.by = "Browser" /\ shCall.content.stored) =>
           /\ shCall.started
           /\ shCall.rendered = shCall.content.text
           /\ shCall.raised # "ValueError"
    /\ shCall.by = "BrowserAPI" =>
           /\ shCall.raised = ""
           /\ shCall.returned \in {"Error taking screenshot", "Screenshot saved to"}
           /\ shCall.returned = "Screenshot saved to" => shCall.started


(***************************************************************************)
(* Claims about crop_to_square_tiles.                                      *)
(***************************************************************************)

\* the rows of the image that some saved tile shows
RowsCovered ==
    UNION { tlOut.tiles[i].top .. (tlOut.tiles[i].bottom - 1) :
            i \in 1..Len(tlOut.tiles) }

\* C21: for an image with height > width and an overlap from 0.0 to 1.0
\* the tiles are each width x width, their rows together are all the rows
\* 0..height-1 of the image, and their files are numbered 1..n; for
\* height <= width the call raises ValueError and saves no tile.
C21_AsStated ==
    tlPc = "done" =>
        IF tlIn.height > tlIn.width
        THEN /\ tlOut.raised = ""
             /\ \A i \in 1..Len(tlOut.tiles) :
                    /\ tlOut.tiles[i].w = tlIn.width
                    /\ tlOut.tiles[i].h = tlIn.width
                    /\ tlOut.tiles[i].number = i
             /\ RowsCovered = 0..(tlIn.height - 1)
        ELSE /\ tlOut.raised = "ValueError"
             /\ tlOut.tiles = << >>


(***************************************************************************)
(* Claims about the screenshot renderer.                                   *)
(***************************************************************************)

\* every attempt of the call failed
AllFailed == Len(pwNav) = 4 /\ \A i \in 1..4 : ~pwNav[i].ok

C28_AsStated ==
    pwPc = "done" =>
        /\ pwRes.driver # "open"
        /\ pwRes.browser # "open"
        /\ pwRes.context # "open"
        /\ pwRes.page # "open"


(***************************************************************************)
(* Claims about get_ocr_client.                                            *)
(***************************************************************************)

\* C25: once calls of get_ocr_client have returned, from one thread or
\* from several, exactly one DeepSeekOCR object has been constructed, every
\* call has returned that object, and it has the api_url (without the
\* trailing '/' the constructor removes) and the model of the first call,
\* the first to test _ocr_instance.
C25_AsStated ==
    ocReturned # {} =>
        /\ Len(ocObjects) = 1
        /\ ocReturned = {1}
        /\ ocObjects[1].api_url = RStripSlash(ocCalls[1].api_url)
        /\ ocObjects[1].model = ocCalls[1].model

====
